---- MODULE Spec2Model ----
(***************************************************************************)
(* Subagent orchestration registry (src/src/agents/subagent-registry.ts):  *)
(* the run records, the lifecycle listener, the agent.wait prober, the     *)
(* retry scheduler, the verification pipeline, announce/cleanup, the       *)
(* sweeper and the startup restore, as one state machine.                  *)
(*                                                                         *)
(* Conventions.  A timestamp field that the code leaves undefined is 0     *)
(* (the code tests these fields for truthiness); a maxRetries that is       *)
(* undefined is -1.  An absent outcome has                                 *)
(* status "none", an absent verificationResult is "none".  A partial       *)
(* configuration object is a function whose DOMAIN holds the fields it     *)
(* supplies.  Every await of the code that really suspends (a timer, a     *)
(* gateway call, a hook, the announce flow) ends an action; the code       *)
(* between two suspensions is one action.                                  *)
(***************************************************************************)
EXTENDS Integers, Sequences, FiniteSets, TLC

\* ------------------------------------------------------------------ bounds
RunIds == {"r1", "r2"}
\* the clock advances in steps of one sweeper period; it starts at TickMs
TickMs == 60000
MaxTicks == 3
MaxRestarts == 1

\* ------------------------------------------------------------ pure helpers
Min(a, b) == IF a <= b THEN a ELSE b

Max(a, b) == IF a >= b THEN a ELSE b

RECURSIVE Pow(_, _)
Pow(b, e) == IF e = 0 THEN 1 ELSE b * Pow(b, e - 1)

\* a ?? b ?? c over partial objects: the first object that supplies field f
Coalesce(f, first, second, third) ==
    IF f \in DOMAIN first THEN first[f]
    ELSE IF f \in DOMAIN second THEN second[f]
    ELSE third[f]

\* An object may own a key whose value is undefined ({maxRetries: undefined}).
\* Such keys are not in the DOMAIN of the function that models the object (so
\* that ?. and ?? read them as absent); the object lists them under the key
\* "undefined".
UndefinedKeys(o) == IF "undefined" \in DOMAIN o THEN o.undefined ELSE {}

\* { ...base, ...over }: every own key of over replaces the key of base, also
\* when its value is undefined
Spread(base, over) ==
    [f \in (((DOMAIN base) \cup (DOMAIN over)) \ UndefinedKeys(over)) \ {"undefined"} |->
        IF f \in DOMAIN over THEN over[f] ELSE base[f]]

Empty == [f \in {} |-> 0]

\* ----------------------------------------------------------- configuration
DEFAULT_ORCHESTRATION ==
    [retryOnFailure |-> FALSE,
     maxRetries |-> 3,
     backoffMultiplier |-> 2,
     initialDelayMs |-> 1000,
     maxDelayMs |-> 60000,
     verifyCompletion |-> FALSE,
     verificationPrompt |-> "",
     verificationTimeoutSeconds |-> 30,
     retryOnVerificationFailure |-> TRUE,
     verificationHook |-> ""]

OrchFields == DOMAIN DEFAULT_ORCHESTRATION

\* cfg.agents?.defaults?.subagents?.orchestration
UserOrchestration(cfg) ==
    IF "orchestration" \in DOMAIN cfg THEN cfg.orchestration ELSE Empty

resolveOrchestrationConfig(cfg, overrideConfig) ==
    [f \in OrchFields |->
        Coalesce(f, overrideConfig, UserOrchestration(cfg), DEFAULT_ORCHESTRATION)]

resolveArchiveAfterMs(cfg) ==
    LET minutes == IF "archiveAfterMinutes" \in DOMAIN cfg
                   THEN cfg.archiveAfterMinutes ELSE 60
    IN  IF minutes <= 0 THEN 0 ELSE Max(1, minutes) * 60000

\* the delay without the maxDelayMs cap
calculateRetryDelayUncapped(retryCount, config) ==
    config.initialDelayMs * Pow(config.backoffMultiplier, retryCount)

calculateRetryDelay(retryCount, config) ==
    Min(config.initialDelayMs * Pow(config.backoffMultiplier, retryCount),
        config.maxDelayMs)

\* the retry decision without the retryCount >= maxRetries test
shouldRetryTaskUnlimited(entry, config) ==
    /\ config.retryOnFailure
    /\ entry.outcome.status = "error"

shouldRetryTask(entry, config) ==
    /\ config.retryOnFailure
    /\ ~(entry.retryCount >= config.maxRetries)
    /\ entry.outcome.status = "error"

\* ------------------------------------------------------------------ values
NoOutcome == [status |-> "none", error |-> ""]

OkOutcome == [status |-> "ok", error |-> ""]

ErrOutcome(msg) == [status |-> "error", error |-> msg]

IdleRetry == [phase |-> "idle", n |-> 0, wakeAt |-> 0]

\* calls: the handleTaskCompletion calls of the run that await a verdict
IdleVerif ==
    [phase |-> "idle", config |-> Empty, detached |-> FALSE, entry |-> Empty, calls |-> 0]

IdleSweep == [phase |-> "idle", at |-> 0, mutated |-> FALSE]

HookNames == {"h", "g"}

\* ------------------------------------------------------------------- state
VARIABLES
    runs,                 \* subagentRuns: runId -> SubagentRunRecord
    disk,                 \* the persisted snapshot (runs.json)
    restoreAttempted,
    resumedRuns,
    listenerStarted,
    sweeper,              \* TRUE while the setInterval timer is armed
    sweepTask,            \* the sweepSubagentRuns call in progress, if any
    pendingRetries,
    pendingVerifications,
    verificationHooks,    \* names of the registered hooks
    userConfig,           \* loadConfig(): agents.defaults.subagents
    now,                  \* Date.now()
    probers,              \* runId -> number of agent.wait calls in flight
    retryTask,            \* runId -> the scheduleTaskRetry call in progress
    verifTask,            \* runId -> the handleTaskCompletion call in progress
    announces,            \* runId -> payloads of the announce flows in flight
    starts,               \* history: runId -> retry numbers passed to agent.start
    annOk,                \* history: runId -> announces that returned success (0, 1, 2+)
    sessionsDeleted,      \* history: child sessions with a sessions.delete call
    known,                \* runIds this process has registered or restored
    restarts,             \* history: process restarts so far
    saveFails,            \* TRUE while saveSubagentRegistryToDisk throws
    scn                   \* the inputs the environment draws from (never changes)

vars ==
    <<runs, disk, restoreAttempted, resumedRuns, listenerStarted, sweeper, sweepTask,
      pendingRetries, pendingVerifications, verificationHooks, userConfig, now,
      probers, retryTask, verifTask, announces, starts, annOk,
      sessionsDeleted, known, restarts, saveFails, scn>>

\* The state the engine's code reads and writes, as one value: the operators
\* below map such a value to the value after the code has run.
Cur ==
    [runs |-> runs, disk |-> disk, restoreAttempted |-> restoreAttempted,
     resumedRuns |-> resumedRuns, listenerStarted |-> listenerStarted,
     sweeper |-> sweeper, sweepTask |-> sweepTask,
     pendingRetries |-> pendingRetries,
     pendingVerifications |-> pendingVerifications,
     probers |-> probers, retryTask |-> retryTask, verifTask |-> verifTask,
     announces |-> announces, starts |-> starts,
     annOk |-> annOk, sessionsDeleted |-> sessionsDeleted, known |-> known,
     saveFails |-> saveFails]

Commit(s) ==
    /\ runs' = s.runs
    /\ disk' = s.disk
    /\ restoreAttempted' = s.restoreAttempted
    /\ resumedRuns' = s.resumedRuns
    /\ listenerStarted' = s.listenerStarted
    /\ sweeper' = s.sweeper
    /\ sweepTask' = s.sweepTask
    /\ pendingRetries' = s.pendingRetries
    /\ pendingVerifications' = s.pendingVerifications
    /\ probers' = s.probers
    /\ retryTask' = s.retryTask
    /\ verifTask' = s.verifTask
    /\ announces' = s.announces
    /\ starts' = s.starts
    /\ annOk' = s.annOk
    /\ sessionsDeleted' = s.sessionsDeleted
    /\ known' = s.known

\* ------------------------------------------------------- registry helpers
\* persistSubagentRuns if a failing save were not caught: the mutations
\* since the last successful save are lost
persistOrRollBack(s) ==
    IF s.saveFails THEN [s EXCEPT !.runs = s.disk] ELSE [s EXCEPT !.disk = s.runs]

\* try { saveSubagentRegistryToDisk(subagentRuns) } catch { }
persistSubagentRuns(s) == IF s.saveFails THEN s ELSE [s EXCEPT !.disk = s.runs]

\* subagentRuns.set(runId, entry)
SetRun(rs, r, entry) ==
    [x \in (DOMAIN rs) \cup {r} |-> IF x = r THEN entry ELSE rs[x]]

\* subagentRuns.delete(runId).  A handleTaskCompletion call in progress keeps
\* its reference to the removed object: from here on it reads and writes that
\* object, which is no longer the registry's.
DeleteRun(s, r) ==
    LET v == s.verifTask[r]
    IN  [s EXCEPT
            !.runs = [x \in (DOMAIN s.runs) \ {r} |-> s.runs[x]],
            !.verifTask[r] =
                IF v.phase # "idle" /\ ~v.detached /\ r \in DOMAIN s.runs
                THEN [v EXCEPT !.detached = TRUE, !.entry = s.runs[r]]
                ELSE v]

\* the object a closure's `entry` refers to: the registry's record, or the
\* detached object of the verification in progress
GetEntry(s, r, det) == IF det THEN s.verifTask[r].entry ELSE s.runs[r]

\* the write that puts the object back under its runId when it is detached
PutEntryInRegistry(s, r, det, e) ==
    [s EXCEPT !.runs = [x \in DOMAIN s.runs \cup {r} |->
                           IF x = r THEN e ELSE s.runs[x]]]

PutEntry(s, r, det, e) ==
    IF det THEN [s EXCEPT !.verifTask[r].entry = e] ELSE [s EXCEPT !.runs[r] = e]

startSweeper(s) == [s EXCEPT !.sweeper = TRUE]

stopSweeper(s) == [s EXCEPT !.sweeper = FALSE]

ensureListener(s) == [s EXCEPT !.listenerStarted = TRUE]

\* --------------------------------------------------------------- cleanup
\* the test of beginSubagentCleanup without the cleanupCompletedAt condition
beginSubagentCleanupOkIfNotHandled(rs, r) ==
    /\ r \in DOMAIN rs
    /\ ~rs[r].cleanupHandled

\* the value beginSubagentCleanup returns
beginSubagentCleanupOk(rs, r) ==
    /\ r \in DOMAIN rs
    /\ rs[r].cleanupCompletedAt = 0
    /\ ~rs[r].cleanupHandled

beginSubagentCleanup(s, r) ==
    IF beginSubagentCleanupOk(s.runs, r)
    THEN persistSubagentRuns([s EXCEPT !.runs[r].cleanupHandled = TRUE])
    ELSE s

\* the argument of runSubagentAnnounceFlow without the retry and verification
\* fields of the record
AnnounceParamsWithoutRetries(entry) ==
    [childSessionKey |-> entry.childSessionKey,
     childRunId |-> entry.runId,
     requesterSessionKey |-> entry.requesterSessionKey,
     task |-> entry.task,
     cleanup |-> entry.cleanup,
     startedAt |-> entry.startedAt,
     endedAt |-> entry.endedAt,
     outcome |-> entry.outcome,
     retryCount |-> 0,
     verificationResult |-> "none"]

\* the argument of runSubagentAnnounceFlow
AnnounceParams(entry) ==
    [childSessionKey |-> entry.childSessionKey,
     childRunId |-> entry.runId,
     requesterSessionKey |-> entry.requesterSessionKey,
     task |-> entry.task,
     cleanup |-> entry.cleanup,
     startedAt |-> entry.startedAt,
     endedAt |-> entry.endedAt,
     outcome |-> entry.outcome,
     retryCount |-> entry.retryCount,
     verificationResult |-> entry.verificationResult]

runSubagentAnnounceFlow(s, r, entry) ==
    [s EXCEPT !.announces[r] = Append(@, AnnounceParams(entry))]

\* if (!beginSubagentCleanup(runId)) return; void runSubagentAnnounceFlow(...)
proceedWithCleanup(s, r, det) ==
    IF beginSubagentCleanupOk(s.runs, r)
    THEN LET s1 == beginSubagentCleanup(s, r)
         IN  runSubagentAnnounceFlow(s1, r, GetEntry(s1, r, det))
    ELSE s

\* the finalisation without the reset of cleanupHandled after a failed announce
finalizeKeepingHandled(s, r, cleanup, didAnnounce) ==
    IF r \notin DOMAIN s.runs THEN s
    ELSE IF cleanup = "delete" THEN persistSubagentRuns(DeleteRun(s, r))
    ELSE IF ~didAnnounce THEN persistSubagentRuns(s)
    ELSE persistSubagentRuns([s EXCEPT !.runs[r].cleanupCompletedAt = now])

finalizeSubagentCleanup(s, r, cleanup, didAnnounce) ==
    IF r \notin DOMAIN s.runs THEN s
    ELSE IF cleanup = "delete" THEN persistSubagentRuns(DeleteRun(s, r))
    ELSE IF ~didAnnounce
         THEN persistSubagentRuns([s EXCEPT !.runs[r].cleanupHandled = FALSE])
    ELSE persistSubagentRuns([s EXCEPT !.runs[r].cleanupCompletedAt = now])

\* ----------------------------------------------------------------- retry
\* the scheduling that numbers the retry without counting it in the record
scheduleTaskRetryUncounted(s, r, det, config) ==
    LET entry == GetEntry(s, r, det)
        retryCount == entry.retryCount + 1
        delay == calculateRetryDelay(retryCount - 1, config)
        nextRetryAt == now + delay
        s1 == PutEntry(s, r, det, [entry EXCEPT !.nextRetryAt = nextRetryAt])
        s2 == persistSubagentRuns(s1)
    IN  [s2 EXCEPT
            !.retryTask[r] = [phase |-> "delay", n |-> retryCount, wakeAt |-> now + delay]]

\* scheduleTaskRetry up to its first await (the back-off timer)
scheduleTaskRetry(s, r, det, config) ==
    LET entry == GetEntry(s, r, det)
        retryCount == entry.retryCount + 1
        delay == calculateRetryDelay(retryCount - 1, config)
        nextRetryAt == now + delay
        s1 == PutEntry(s, r, det,
                  [entry EXCEPT !.retryCount = retryCount, !.nextRetryAt = nextRetryAt])
        s2 == persistSubagentRuns(s1)
    IN  [s2 EXCEPT
            !.retryTask[r] = [phase |-> "delay", n |-> retryCount, wakeAt |-> now + delay]]

\* the scheduling without the pendingRetries test
scheduleAlways(s, r, det, config) ==
    scheduleTaskRetry([s EXCEPT !.pendingRetries = @ \cup {r}], r, det, config)

\* if (!pendingRetries.has(runId)) { pendingRetries.add(runId); void scheduleTaskRetry(...) }
scheduleIfNotPending(s, r, det, config) ==
    IF r \notin s.pendingRetries
    THEN scheduleTaskRetry([s EXCEPT !.pendingRetries = @ \cup {r}], r, det, config)
    ELSE s

\* the retry after its delay without the cleanupCompletedAt test
retryAfterDelayUnlessGone(s, r) ==
    IF r \notin DOMAIN s.runs
    THEN [s EXCEPT !.retryTask[r] = IdleRetry, !.pendingRetries = @ \ {r}]
    ELSE LET s1 == [s EXCEPT !.runs[r].endedAt = 0,
                             !.runs[r].outcome = NoOutcome,
                             !.runs[r].cleanupHandled = FALSE,
                             !.runs[r].startedAt = now,
                             !.runs[r].isRetry = TRUE]
             s2 == persistSubagentRuns(s1)
         IN  [s2 EXCEPT !.retryTask[r].phase = "start",
                        !.starts[r] = Append(@, s.retryTask[r].n)]

\* scheduleTaskRetry from the end of the back-off timer to the agent.start call;
\* a cancelled retry returns, and the caller's finally leaves pendingRetries
retryAfterDelay(s, r) ==
    IF r \notin DOMAIN s.runs \/ s.runs[r].cleanupCompletedAt # 0
    THEN [s EXCEPT !.retryTask[r] = IdleRetry, !.pendingRetries = @ \ {r}]
    ELSE LET s1 == [s EXCEPT !.runs[r].endedAt = 0,
                             !.runs[r].outcome = NoOutcome,
                             !.runs[r].cleanupHandled = FALSE,
                             !.runs[r].startedAt = now,
                             !.runs[r].isRetry = TRUE]
             s2 == persistSubagentRuns(s1)
         IN  [s2 EXCEPT !.retryTask[r].phase = "start",
                        !.starts[r] = Append(@, s.retryTask[r].n)]

\* scheduleTaskRetry after the agent.start call has returned or thrown
retryAfterStart(s, r, ok) ==
    LET s1 == IF ok THEN [s EXCEPT !.probers[r] = @ + 1] ELSE s
    IN  [s1 EXCEPT !.retryTask[r] = IdleRetry, !.pendingRetries = @ \ {r}]

\* ---------------------------------------------------------- verification
\* verifyTaskCompletion up to its first await: "pass" and "fail" are verdicts
\* returned without suspending, "hook" and "query" the call it awaits
verifyTaskCompletionStart(entry, config, hooks) ==
    IF ~config.verifyCompletion THEN "pass"
    ELSE IF config.verificationHook # ""
         THEN IF config.verificationHook \notin hooks THEN "pass" ELSE "hook"
    ELSE IF entry.outcome.status = "error" THEN "fail"
    ELSE IF config.verificationPrompt # "" THEN "query"
    ELSE "pass"

\* handleTaskCompletion from the verdict on, scheduling the retry of a failed
\* verification without rewriting the outcome first
handleTaskCompletionVerdictKeepingOk(s, r, det, config, passed) ==
    IF passed
    THEN persistSubagentRuns(
             PutEntry(s, r, det,
                 [GetEntry(s, r, det) EXCEPT !.verificationResult = "passed"]))
    ELSE LET s1 == PutEntry(s, r, det,
                       [GetEntry(s, r, det) EXCEPT !.verificationResult = "failed"])
             failed == [GetEntry(s1, r, det) EXCEPT
                           !.outcome = ErrOutcome("Verification failed")]
         IN  IF config.retryOnVerificationFailure /\ shouldRetryTask(failed, config)
             THEN scheduleIfNotPending(persistSubagentRuns(s1), r, det, config)
             ELSE persistSubagentRuns(s1)

\* handleTaskCompletion from the verdict on
handleTaskCompletionVerdict(s, r, det, config, passed) ==
    IF passed
    THEN persistSubagentRuns(
             PutEntry(s, r, det,
                 [GetEntry(s, r, det) EXCEPT !.verificationResult = "passed"]))
    ELSE LET s1 == PutEntry(s, r, det,
                       [GetEntry(s, r, det) EXCEPT !.verificationResult = "failed"])
         IN  IF config.retryOnVerificationFailure
             THEN LET s2 == persistSubagentRuns(
                                PutEntry(s1, r, det,
                                    [GetEntry(s1, r, det) EXCEPT
                                        !.outcome = ErrOutcome("Verification failed")]))
                  IN  IF shouldRetryTask(GetEntry(s2, r, det), config)
                      THEN scheduleIfNotPending(s2, r, det, config)
                      ELSE persistSubagentRuns(s2)
             ELSE persistSubagentRuns(s1)

\* the listener's .then and .finally on handleTaskCompletion
afterHandleTaskCompletion(s, r, det) ==
    LET s1 == IF GetEntry(s, r, det).outcome.status = "error"
              THEN s
              ELSE proceedWithCleanup(s, r, det)
    IN  [s1 EXCEPT !.pendingVerifications = @ \ {r}, !.verifTask[r] = IdleVerif]

\* handleTaskCompletion as the listener calls it, up to its first await
handleTaskCompletion(s, r, config, hooks) ==
    LET entry == s.runs[r]
    IN  IF entry.outcome.status = "error"
        THEN afterHandleTaskCompletion(
                 persistSubagentRuns([s EXCEPT !.runs[r].verificationResult = "skipped"]),
                 r, FALSE)
        ELSE IF config.verifyCompletion
        THEN LET s1 == persistSubagentRuns(
                           [s EXCEPT !.runs[r].verificationAttempted = TRUE])
                 v == verifyTaskCompletionStart(s1.runs[r], config, hooks)
             IN  IF v \in {"hook", "query"}
                 THEN [s1 EXCEPT !.verifTask[r] =
                          [phase |-> v, config |-> config,
                           detached |-> FALSE, entry |-> Empty,
                           calls |-> s1.verifTask[r].calls + 1]]
                 ELSE afterHandleTaskCompletion(
                          handleTaskCompletionVerdict(s1, r, FALSE, config, v = "pass"),
                          r, FALSE)
        ELSE afterHandleTaskCompletion(
                 persistSubagentRuns([s EXCEPT !.runs[r].verificationResult = "skipped"]),
                 r, FALSE)

\* -------------------------------------------------- listener and prober
\* the listener's terminal branch without the pendingVerifications test
listenerTerminalUnguarded(s, r, phase, cfg, hooks) ==
    LET s1 == persistSubagentRuns(
                  [s EXCEPT !.runs[r].endedAt = now,
                            !.runs[r].outcome =
                                IF phase = "error" THEN ErrOutcome("boom") ELSE OkOutcome])
        entry == s1.runs[r]
        orchestrationConfig == resolveOrchestrationConfig(cfg, entry.orchestrationConfig)
    IN  IF entry.outcome.status = "error" /\ shouldRetryTask(entry, orchestrationConfig)
        THEN scheduleIfNotPending(s1, r, FALSE, orchestrationConfig)
        ELSE IF entry.outcome.status = "ok" /\ orchestrationConfig.verifyCompletion
        THEN handleTaskCompletion(
                 [s1 EXCEPT !.pendingVerifications = @ \cup {r}],
                 r, orchestrationConfig, hooks)
        ELSE proceedWithCleanup(s1, r, FALSE)

\* the lifecycle listener on an end or error event of a known run
listenerTerminal(s, r, phase, cfg, hooks) ==
    LET s1 == persistSubagentRuns(
                  [s EXCEPT !.runs[r].endedAt = now,
                            !.runs[r].outcome =
                                IF phase = "error" THEN ErrOutcome("boom") ELSE OkOutcome])
        entry == s1.runs[r]
        orchestrationConfig == resolveOrchestrationConfig(cfg, entry.orchestrationConfig)
    IN  IF entry.outcome.status = "error" /\ shouldRetryTask(entry, orchestrationConfig)
        THEN scheduleIfNotPending(s1, r, FALSE, orchestrationConfig)
        ELSE IF entry.outcome.status = "ok" /\ orchestrationConfig.verifyCompletion
        THEN IF r \notin s1.pendingVerifications
             THEN handleTaskCompletion(
                      [s1 EXCEPT !.pendingVerifications = @ \cup {r}],
                      r, orchestrationConfig, hooks)
             ELSE s1
        ELSE proceedWithCleanup(s1, r, FALSE)

\* the lifecycle listener (the callback given to onAgentEvent)
listener(s, r, phase, cfg, hooks) ==
    IF r \notin DOMAIN s.runs THEN s
    ELSE IF phase = "start"
    THEN persistSubagentRuns([s EXCEPT !.runs[r].startedAt = now])
    ELSE listenerTerminal(s, r, phase, cfg, hooks)

\* waitForSubagentCompletion from the reply of agent.wait on
waitForSubagentCompletion(s, r, status, hasStartedAt, hasEndedAt) ==
    LET s0 == [s EXCEPT !.probers[r] = @ - 1]
    IN  IF status # "ok" /\ status # "error" THEN s0
        ELSE IF r \notin DOMAIN s0.runs THEN s0
        ELSE LET e0 == s0.runs[r]
                 e1 == IF hasStartedAt THEN [e0 EXCEPT !.startedAt = now] ELSE e0
                 e2 == IF hasEndedAt THEN [e1 EXCEPT !.endedAt = now] ELSE e1
                 e3 == IF e2.endedAt = 0 THEN [e2 EXCEPT !.endedAt = now] ELSE e2
                 e4 == [e3 EXCEPT !.outcome =
                           IF status = "error" THEN ErrOutcome("boom") ELSE OkOutcome]
                 s1 == persistSubagentRuns([s0 EXCEPT !.runs[r] = e4])
             IN  proceedWithCleanup(s1, r, FALSE)

\* ------------------------------------------- register, release, restore
NewRecord(r, cleanup, archiveAtMs, orchestrationConfig) ==
    [runId |-> r,
     childSessionKey |-> r,
     requesterSessionKey |-> "main",
     task |-> "task",
     cleanup |-> cleanup,
     createdAt |-> now,
     startedAt |-> now,
     endedAt |-> 0,
     outcome |-> NoOutcome,
     archiveAtMs |-> archiveAtMs,
     cleanupCompletedAt |-> 0,
     cleanupHandled |-> FALSE,
     retryCount |-> 0,
     maxRetries |-> IF "maxRetries" \in DOMAIN orchestrationConfig
                    THEN orchestrationConfig.maxRetries ELSE -1,
     nextRetryAt |-> 0,
     isRetry |-> FALSE,
     verificationAttempted |-> FALSE,
     verificationResult |-> "none",
     orchestrationConfig |-> orchestrationConfig]

\* registerSubagentRun without the persistSubagentRuns() call
registerSubagentRunUnsaved(s, r, cleanup, override, cfg) ==
    LET archiveAfterMs == resolveArchiveAfterMs(cfg)
        archiveAtMs == IF archiveAfterMs # 0 THEN now + archiveAfterMs ELSE 0
        orchestrationConfig == Spread(resolveOrchestrationConfig(cfg, Empty), override)
        s1 == [s EXCEPT
                  !.runs = SetRun(@, r,
                               NewRecord(r, cleanup, archiveAtMs, orchestrationConfig)),
                  !.known = @ \cup {r}]
        s2 == ensureListener(s1)
        s3 == IF archiveAfterMs # 0 THEN startSweeper(s2) ELSE s2
    IN  [s3 EXCEPT !.probers[r] = @ + 1]

registerSubagentRun(s, r, cleanup, override, cfg) ==
    LET archiveAfterMs == resolveArchiveAfterMs(cfg)
        archiveAtMs == IF archiveAfterMs # 0 THEN now + archiveAfterMs ELSE 0
        resolvedOrchestration == resolveOrchestrationConfig(cfg, Empty)
        orchestrationConfig == Spread(resolvedOrchestration, override)
        s1 == [s EXCEPT
                  !.runs = SetRun(@, r,
                               NewRecord(r, cleanup, archiveAtMs, orchestrationConfig)),
                  !.known = @ \cup {r}]
        s2 == persistSubagentRuns(ensureListener(s1))
        s3 == IF archiveAfterMs # 0 THEN startSweeper(s2) ELSE s2
    IN  [s3 EXCEPT !.probers[r] = @ + 1]

\* the release that stops the sweeper whatever the registry still holds
releaseStoppingSweeper(s, r) ==
    LET didDelete == r \in DOMAIN s.runs
        s1 == IF didDelete THEN persistSubagentRuns(DeleteRun(s, r)) ELSE s
    IN  stopSweeper(s1)

releaseSubagentRun(s, r) ==
    LET didDelete == r \in DOMAIN s.runs
        s1 == IF didDelete THEN persistSubagentRuns(DeleteRun(s, r)) ELSE s
    IN  IF DOMAIN s1.runs = {} THEN stopSweeper(s1) ELSE s1

resumeSubagentRun(s, r) ==
    IF r \in s.resumedRuns THEN s
    ELSE IF r \notin DOMAIN s.runs THEN s
    ELSE IF s.runs[r].cleanupCompletedAt # 0 THEN s
    ELSE IF s.runs[r].endedAt > 0
         THEN IF ~beginSubagentCleanupOk(s.runs, r) THEN s
              ELSE LET s1 == proceedWithCleanup(s, r, FALSE)
                   IN  [s1 EXCEPT !.resumedRuns = @ \cup {r}]
    ELSE [s EXCEPT !.probers[r] = @ + 1, !.resumedRuns = @ \cup {r}]

RECURSIVE ResumeAll(_, _)
\* for (const runId of subagentRuns.keys()) resumeSubagentRun(runId)
ResumeAll(s, ids) ==
    IF ids = {} THEN s
    ELSE LET r == CHOOSE x \in ids : TRUE
         IN  ResumeAll(resumeSubagentRun(s, r), ids \ {r})

\* the restore with a merge in which the persisted record wins
restoreOverwriting(s) ==
    IF s.restoreAttempted THEN s
    ELSE LET s0 == [s EXCEPT !.restoreAttempted = TRUE]
             restored == s0.disk
         IN  IF DOMAIN restored = {} THEN s0
             ELSE LET merged ==
                          [x \in (DOMAIN s0.runs) \cup (DOMAIN restored) |->
                              IF x \in DOMAIN restored THEN restored[x] ELSE s0.runs[x]]
                      s1 == ensureListener(
                                [s0 EXCEPT !.runs = merged,
                                           !.known = @ \cup DOMAIN merged])
                      s2 == IF \E x \in DOMAIN s1.runs : s1.runs[x].archiveAtMs # 0
                            THEN startSweeper(s1) ELSE s1
                  IN  ResumeAll(s2, DOMAIN s2.runs)

restoreSubagentRunsOnce(s) ==
    IF s.restoreAttempted THEN s
    ELSE LET s0 == [s EXCEPT !.restoreAttempted = TRUE]
             restored == s0.disk
         IN  IF DOMAIN restored = {} THEN s0
             ELSE LET merged ==
                          [x \in (DOMAIN s0.runs) \cup (DOMAIN restored) |->
                              IF x \in DOMAIN s0.runs THEN s0.runs[x] ELSE restored[x]]
                      s1 == ensureListener(
                                [s0 EXCEPT !.runs = merged,
                                           !.known = @ \cup DOMAIN merged])
                      s2 == IF \E x \in DOMAIN s1.runs : s1.runs[x].archiveAtMs # 0
                            THEN startSweeper(s1) ELSE s1
                  IN  ResumeAll(s2, DOMAIN s2.runs)

RECURSIVE DeleteAll(_, _)
\* subagentRuns.clear()
DeleteAll(s, ids) ==
    IF ids = {} THEN s
    ELSE LET r == CHOOSE x \in ids : TRUE
         IN  DeleteAll(DeleteRun(s, r), ids \ {r})

\* resetSubagentRegistryForTests, but for verificationHooks.clear(): timers
\* and calls in flight are not cancelled
resetSubagentRegistryForTests(s) ==
    LET s1 == DeleteAll(s, DOMAIN s.runs)
        s2 == stopSweeper([s1 EXCEPT !.resumedRuns = {},
                                     !.pendingRetries = {},
                                     !.pendingVerifications = {}])
    IN  persistSubagentRuns([s2 EXCEPT !.restoreAttempted = FALSE,
                                       !.listenerStarted = FALSE])

\* --------------------------------------------------------------- sweeper
\* the records to remove, with archiveAtMs >= now skipped instead of > now
ExpiredStrictly(s) ==
    {r \in DOMAIN s.runs :
        s.runs[r].archiveAtMs # 0 /\ s.runs[r].archiveAtMs < s.sweepTask.at}

\* the records the sweep in progress still has to remove
Expired(s) ==
    {r \in DOMAIN s.runs :
        s.runs[r].archiveAtMs # 0 /\ ~(s.runs[r].archiveAtMs > s.sweepTask.at)}

\* one iteration of the loop, up to the await of sessions.delete
sweepVisit(s, r) ==
    LET key == s.runs[r].childSessionKey
        s1 == DeleteRun(s, r)
    IN  [s1 EXCEPT !.sweepTask.phase = "rpc", !.sweepTask.mutated = TRUE,
                   !.sessionsDeleted = @ \cup {key}]

\* after the loop
sweepFinish(s) ==
    LET s1 == IF s.sweepTask.mutated THEN persistSubagentRuns(s) ELSE s
        s2 == IF DOMAIN s1.runs = {} THEN stopSweeper(s1) ELSE s1
    IN  [s2 EXCEPT !.sweepTask = IdleSweep]

\* ---------------------------------------------------------------- inputs
\* per-call overrides of the retry policy: maxRetries from 1 to MaxRetriesCfg
MaxRetriesCfg == 2

RetryOverrides ==
    {[retryOnFailure |-> FALSE]}
        \cup {[retryOnFailure |-> TRUE, maxRetries |-> n] : n \in 1..MaxRetriesCfg}

\* per-call overrides that enable verification by agent.query
QueryOverrides ==
    {[retryOnFailure |-> FALSE, verifyCompletion |-> TRUE, verificationPrompt |-> "done?"],
     [retryOnFailure |-> TRUE, maxRetries |-> 1,
      verifyCompletion |-> TRUE, verificationPrompt |-> "done?"],
     [retryOnFailure |-> TRUE, maxRetries |-> 1, verifyCompletion |-> TRUE,
      verificationPrompt |-> "done?", retryOnVerificationFailure |-> FALSE]}

\* per-call overrides that enable the built-in verification or a hook
OtherVerifyOverrides ==
    {[retryOnFailure |-> FALSE, verifyCompletion |-> TRUE],
     [retryOnFailure |-> FALSE, verifyCompletion |-> TRUE, verificationHook |-> "h"]}

Overrides == RetryOverrides \cup QueryOverrides

\* process configurations.  ZeroDelay: archival after one minute, retries
\* without back-off.  Backoff: archival disabled, back-off delays of one
\* sweeper period capped at one and a half.  The third differs from both in
\* the retry policy a registration without override would get.
ZeroDelayConfig ==
    [archiveAfterMinutes |-> 1, orchestration |-> [initialDelayMs |-> 0]]

BackoffConfig ==
    [archiveAfterMinutes |-> 0,
     orchestration |-> [initialDelayMs |-> 60000, maxDelayMs |-> 90000]]

OtherConfig ==
    [orchestration |-> [initialDelayMs |-> 0, retryOnFailure |-> TRUE, maxRetries |-> 1]]

\* archival after one minute and back-off delays of one sweeper period
ArchiveBackoffConfig ==
    [archiveAfterMinutes |-> 1,
     orchestration |-> [initialDelayMs |-> 60000, maxDelayMs |-> 90000]]

UserConfigs == {ZeroDelayConfig, BackoffConfig, OtherConfig}

\* per-call overrides of a registration: none, the fields one by one with
\* values that differ from the defaults, falsy values, and own keys whose
\* value is undefined
PolicyOverrides ==
    {Empty,
     [retryOnFailure |-> TRUE, maxRetries |-> MaxRetriesCfg, verifyCompletion |-> TRUE],
     [retryOnFailure |-> FALSE, maxRetries |-> 0, verificationPrompt |-> ""],
     [backoffMultiplier |-> 3, initialDelayMs |-> 500, maxDelayMs |-> 1000,
      verificationTimeoutSeconds |-> 5, verificationPrompt |-> "done?",
      verificationHook |-> "h", retryOnVerificationFailure |-> FALSE],
     [undefined |-> {"maxRetries"}],
     [retryOnFailure |-> TRUE, undefined |-> {"initialDelayMs", "verifyCompletion"}]}

\* a process configuration that sets every orchestration field
FullConfig ==
    [archiveAfterMinutes |-> 2,
     orchestration |->
         [retryOnFailure |-> TRUE, maxRetries |-> 1, backoffMultiplier |-> 4,
          initialDelayMs |-> 250, maxDelayMs |-> 4000, verifyCompletion |-> TRUE,
          verificationPrompt |-> "check", verificationTimeoutSeconds |-> 10,
          retryOnVerificationFailure |-> FALSE, verificationHook |-> "h"]]

\* process configurations of a registration: the ones above, one without a
\* subagents section, one with a negative archiveAfterMinutes
PolicyConfigs ==
    UserConfigs \cup {Empty, FullConfig, [archiveAfterMinutes |-> -1]}

\* archival disabled, retries without back-off
QuickConfig ==
    [archiveAfterMinutes |-> 0, orchestration |-> [initialDelayMs |-> 0]]

\* per-call overrides that verify by the hook "h", by agent.query or by the
\* built-in check, with and without a retry permitted
HookOverrides ==
    {[retryOnFailure |-> FALSE, verifyCompletion |-> TRUE, verificationHook |-> "h"],
     [retryOnFailure |-> TRUE, maxRetries |-> 1,
      verifyCompletion |-> TRUE, verificationHook |-> "h"],
     [retryOnFailure |-> TRUE, maxRetries |-> 1, verifyCompletion |-> TRUE,
      verificationHook |-> "h", retryOnVerificationFailure |-> FALSE],
     [retryOnFailure |-> TRUE, maxRetries |-> 1,
      verifyCompletion |-> TRUE, verificationPrompt |-> "done?"],
     [retryOnFailure |-> FALSE, verifyCompletion |-> TRUE]}

\* ------------------------------------------------------------------ Init
InitWith(ids, overrides, cleanups, userConfigs) ==
    /\ runs = Empty
    /\ disk = Empty
    /\ restoreAttempted = FALSE
    /\ resumedRuns = {}
    /\ listenerStarted = FALSE
    /\ sweeper = FALSE
    /\ sweepTask = IdleSweep
    /\ pendingRetries = {}
    /\ pendingVerifications = {}
    /\ verificationHooks = {}
    /\ userConfig \in userConfigs
    /\ now = TickMs
    /\ probers = [r \in RunIds |-> 0]
    /\ retryTask = [r \in RunIds |-> IdleRetry]
    /\ verifTask = [r \in RunIds |-> IdleVerif]
    /\ announces = [r \in RunIds |-> <<>>]
    /\ starts = [r \in RunIds |-> <<>>]
    /\ annOk = [r \in RunIds |-> 0]
    /\ sessionsDeleted = {}
    /\ known = {}
    /\ restarts = 0
    /\ saveFails = FALSE
    /\ scn = [ids |-> ids, overrides |-> overrides, cleanups |-> cleanups,
              userConfigs |-> userConfigs]

Init == InitWith({"r1"}, Overrides, {"keep", "delete"}, {BackoffConfig})

\* --------------------------------------------------------------- actions
Frame == UNCHANGED <<verificationHooks, userConfig, now, restarts, saveFails, scn>>

\* registerSubagentRun, for a runId this process has not seen
Register(r, cleanup, override) ==
    /\ r \in scn.ids /\ r \notin known
    /\ cleanup \in scn.cleanups /\ override \in scn.overrides
    /\ Commit(registerSubagentRun(Cur, r, cleanup, override, userConfig))
    /\ Frame

\* a lifecycle event on the agent-event bus
ListenerEvent(r, phase) ==
    /\ listenerStarted
    /\ Commit(listener(Cur, r, phase, userConfig, verificationHooks))
    /\ Frame

\* the reply of one agent.wait call (a thrown call counts as "timeout")
ProberReply(r, status, hasStartedAt, hasEndedAt) ==
    /\ probers[r] > 0
    /\ Commit(waitForSubagentCompletion(Cur, r, status, hasStartedAt, hasEndedAt))
    /\ Frame

\* the back-off timer of a scheduled retry fires
RetryWake(r) ==
    /\ retryTask[r].phase = "delay"
    /\ now >= retryTask[r].wakeAt
    /\ Commit(retryAfterDelay(Cur, r))
    /\ Frame

\* the agent.start call of a retry returns or throws
RetryStartDone(r, ok) ==
    /\ retryTask[r].phase = "start"
    /\ Commit(retryAfterStart(Cur, r, ok))
    /\ Frame

\* the hook or the agent.query call of a verification ends: a verdict, or an
\* exception or timeout (which the code turns into a failing verdict)
VerifyDone(r, passed) ==
    /\ verifTask[r].phase # "idle"
    /\ LET det == verifTask[r].detached
           s1 == handleTaskCompletionVerdict(Cur, r, det, verifTask[r].config, passed)
       IN  Commit(afterHandleTaskCompletion(s1, r, det))
    /\ Frame

\* what a verification in flight comes back with: the answer of the hook or
\* of the agent, a throw, or nothing within verificationTimeoutSeconds
VerificationReplies == {"yes", "no", "unclear", "throws", "timeout"}

\* the verdict verifyTaskCompletion returns for it: a hook's answer is its
\* passed field; an agent's reply passes unless it says no; a throw and a
\* timeout are caught and fail
verificationPassed(phase, reply) ==
    IF phase = "hook" THEN reply = "yes" ELSE reply \in {"yes", "unclear"}

\* the hook or the agent.query call of the verification of r comes back
VerificationReturns(r, reply) ==
    /\ verifTask[r].phase # "idle"
    /\ verifTask[r].phase = "hook" => reply # "unclear"
    /\ VerifyDone(r, verificationPassed(verifTask[r].phase, reply))

\* the i-th announce flow in flight for r returns didAnnounce
AnnounceDone(r, i, didAnnounce) ==
    /\ i \in 1..Len(announces[r])
    /\ LET a == announces[r][i]
           rest == [j \in 1..(Len(announces[r]) - 1) |->
                       IF j < i THEN announces[r][j] ELSE announces[r][j + 1]]
           s0 == [Cur EXCEPT !.announces[r] = rest,
                             !.annOk[r] = IF didAnnounce THEN Min(@ + 1, 2) ELSE @]
       IN  Commit(finalizeSubagentCleanup(s0, r, a.cleanup, didAnnounce))
    /\ Frame

\* the sweeper's interval timer fires (no sweep is still in progress)
Sweep ==
    /\ sweeper /\ sweepTask.phase = "idle"
    /\ LET s0 == [Cur EXCEPT !.sweepTask =
                      [phase |-> "loop", at |-> now, mutated |-> FALSE]]
       IN  IF Expired(s0) = {} THEN Commit(sweepFinish(s0))
           ELSE \E r \in Expired(s0) : Commit(sweepVisit(s0, r))
    /\ Frame

\* the sessions.delete call of the sweep in progress returns or throws
SweepRpcDone(ok) ==
    /\ sweepTask.phase = "rpc"
    /\ IF Expired(Cur) = {} THEN Commit(sweepFinish(Cur))
       ELSE \E r \in Expired(Cur) : Commit(sweepVisit(Cur, r))
    /\ Frame

Release(r) ==
    /\ r \in scn.ids
    /\ Commit(releaseSubagentRun(Cur, r))
    /\ Frame

\* initSubagentRegistry (called at startup: before the first sweep)
InitRegistry ==
    /\ sweepTask.phase = "idle"
    /\ Commit(restoreSubagentRunsOnce(Cur))
    /\ Frame

\* the process stops and a new one starts on the same state directory
Restart ==
    /\ restarts < MaxRestarts
    /\ restarts' = restarts + 1
    /\ runs' = Empty
    /\ restoreAttempted' = FALSE
    /\ resumedRuns' = {}
    /\ listenerStarted' = FALSE
    /\ sweeper' = FALSE
    /\ sweepTask' = IdleSweep
    /\ pendingRetries' = {}
    /\ pendingVerifications' = {}
    /\ verificationHooks' = {}
    /\ probers' = [r \in RunIds |-> 0]
    /\ retryTask' = [r \in RunIds |-> IdleRetry]
    /\ verifTask' = [r \in RunIds |-> IdleVerif]
    /\ announces' = [r \in RunIds |-> <<>>]
    /\ known' = {}
    /\ UNCHANGED <<disk, userConfig, now, starts, annOk, sessionsDeleted, saveFails, scn>>

\* a timer of the engine is armed and not yet due
TimerPending ==
    \/ \E r \in RunIds : retryTask[r].phase = "delay" /\ now < retryTask[r].wakeAt
    \/ sweeper /\ \E r \in DOMAIN runs : runs[r].archiveAtMs > now

\* the clock advances, by one sweeper period, towards the next timer that is due
Tick ==
    /\ TimerPending
    /\ now < TickMs * (MaxTicks + 1)
    /\ now' = now + TickMs
    /\ UNCHANGED <<runs, disk, restoreAttempted, resumedRuns, listenerStarted, sweeper,
                   sweepTask, pendingRetries, pendingVerifications, verificationHooks,
                   userConfig, probers, retryTask, verifTask, announces, starts, annOk, sessionsDeleted, known, restarts, saveFails, scn>>

ConfigChange(c) ==
    /\ c \in scn.userConfigs /\ c # userConfig
    /\ userConfig' = c
    /\ UNCHANGED <<runs, disk, restoreAttempted, resumedRuns, listenerStarted, sweeper,
                   sweepTask, pendingRetries, pendingVerifications, verificationHooks,
                   now, probers, retryTask, verifTask, announces, starts, annOk, sessionsDeleted, known, restarts, saveFails, scn>>

registerVerificationHook(h) ==
    /\ verificationHooks' = verificationHooks \cup {h}
    /\ UNCHANGED <<runs, disk, restoreAttempted, resumedRuns, listenerStarted, sweeper,
                   sweepTask, pendingRetries, pendingVerifications, userConfig,
                   now, probers, retryTask, verifTask, announces, starts, annOk, sessionsDeleted, known, restarts, saveFails, scn>>

unregisterVerificationHook(h) ==
    /\ verificationHooks' = verificationHooks \ {h}
    /\ UNCHANGED <<runs, disk, restoreAttempted, resumedRuns, listenerStarted, sweeper,
                   sweepTask, pendingRetries, pendingVerifications, userConfig,
                   now, probers, retryTask, verifTask, announces, starts, annOk, sessionsDeleted, known, restarts, saveFails, scn>>

\* the value unregisterVerificationHook(h) returns: verificationHooks.delete(h)
unregisterVerificationHookResult(h) == h \in verificationHooks

\* resetSubagentRegistryForTests() without verificationHooks.clear()
ResetKeepingHooks ==
    /\ verificationHooks' = verificationHooks
    /\ Commit(resetSubagentRegistryForTests(Cur))
    /\ UNCHANGED <<userConfig, now, restarts, saveFails, scn>>

\* resetSubagentRegistryForTests()
Reset ==
    /\ verificationHooks' = {}
    /\ Commit(resetSubagentRegistryForTests(Cur))
    /\ UNCHANGED <<userConfig, now, restarts, saveFails, scn>>

\* saveSubagentRegistryToDisk starts or stops throwing (the state directory
\* becomes unwritable, or writable again)
StoreFault(b) ==
    /\ saveFails # b
    /\ saveFails' = b
    /\ UNCHANGED <<runs, disk, restoreAttempted, resumedRuns, listenerStarted, sweeper,
                   sweepTask, pendingRetries, pendingVerifications, verificationHooks,
                   userConfig, now, probers, retryTask, verifTask, announces, starts,
                   annOk, sessionsDeleted, known, restarts, scn>>

\* the engine between registration and the end of cleanup
Next ==
    \/ \E r \in RunIds, c \in {"keep", "delete"}, o \in scn.overrides : Register(r, c, o)
    \/ \E r \in RunIds, ph \in {"start", "end", "error"} : ListenerEvent(r, ph)
    \/ \E r \in RunIds, st \in {"ok", "error", "timeout"}, hs \in BOOLEAN, he \in BOOLEAN :
           ProberReply(r, st, hs, he)
    \/ \E r \in RunIds : RetryWake(r)
    \/ \E r \in RunIds, ok \in BOOLEAN : RetryStartDone(r, ok)
    \/ \E r \in RunIds, passed \in BOOLEAN : VerifyDone(r, passed)
    \/ \E r \in RunIds : \E i \in 1..Len(announces[r]), did \in BOOLEAN :
           AnnounceDone(r, i, did)
    \/ Tick

Spec == Init /\ [][Next]_vars


\* ------------------------------------------------------------- scenarios
\* The environment of one run, attempt by attempt: the bus delivers one
\* terminal event for the attempt in progress (the record has no endedAt),
\* and an agent.wait call returns after the attempt has ended, with the
\* status the record holds, or times out.
AttemptEnds(r, phase) ==
    /\ r \in DOMAIN runs /\ runs[r].endedAt = 0
    /\ ListenerEvent(r, phase)

WaitTimesOut(r) == \E hs \in BOOLEAN, he \in BOOLEAN : ProberReply(r, "timeout", hs, he)

WaitReturns(r) ==
    /\ r \in DOMAIN runs /\ runs[r].endedAt # 0
    /\ runs[r].outcome.status \in {"ok", "error"}
    /\ \E hs \in BOOLEAN, he \in BOOLEAN : ProberReply(r, runs[r].outcome.status, hs, he)

\* what the engine does by itself: its timers fire, its gateway calls and
\* its announce flows return
RetryStep(r) == RetryWake(r) \/ RetryStartDone(r, TRUE)

AnnounceStep(r) ==
    \E i \in 1..Len(announces[r]), did \in BOOLEAN : AnnounceDone(r, i, did)

VerifyStep(r) == \E passed \in BOOLEAN : VerifyDone(r, passed)

RegisterStep ==
    \E r \in RunIds, c \in {"keep", "delete"}, o \in scn.overrides : Register(r, c, o)

\* Exhausted retries: retryOnFailure with maxRetries 1..MaxRetriesCfg, every
\* attempt ends with an error event, every agent.wait call times out.
InitExhausted ==
    InitWith({"r1"}, RetryOverrides \ {[retryOnFailure |-> FALSE]},
             {"keep", "delete"}, {BackoffConfig})

NextExhausted ==
    \/ RegisterStep
    \/ \E r \in RunIds : AttemptEnds(r, "error")
    \/ \E r \in RunIds : WaitTimesOut(r)
    \/ \E r \in RunIds : RetryStep(r)
    \/ \E r \in RunIds : AnnounceStep(r)
    \/ Tick

SpecExhausted ==
    /\ InitExhausted /\ [][NextExhausted]_vars
    /\ \A r \in RunIds :
          /\ WF_vars(AttemptEnds(r, "error")) /\ WF_vars(WaitTimesOut(r))
          /\ WF_vars(RetryStep(r)) /\ WF_vars(AnnounceStep(r))
    /\ WF_vars(Tick)

\* Retry then success: a retry is permitted, the first attempt ends with an
\* error event and every later one with an end event; agent.wait calls return
\* once the attempt has ended, or time out.
InitRetryThenOk == InitExhausted

NextRetryThenOk ==
    \/ RegisterStep
    \/ \E r \in RunIds : AttemptEnds(r, IF starts[r] = <<>> THEN "error" ELSE "end")
    \/ \E r \in RunIds : WaitTimesOut(r)
    \/ \E r \in RunIds : WaitReturns(r)
    \/ \E r \in RunIds : RetryStep(r)
    \/ \E r \in RunIds : AnnounceStep(r)
    \/ Tick

SpecRetryThenOk == InitRetryThenOk /\ [][NextRetryThenOk]_vars

\* Verification by agent.query: every attempt ends with an end or an error
\* event, every agent.wait call times out.
InitVerified ==
    InitWith({"r1"}, QueryOverrides, {"keep", "delete"}, {BackoffConfig})

NextVerified ==
    \/ RegisterStep
    \/ \E r \in RunIds, ph \in {"end", "error"} : AttemptEnds(r, ph)
    \/ \E r \in RunIds : WaitTimesOut(r)
    \/ \E r \in RunIds : RetryStep(r)
    \/ \E r \in RunIds : VerifyStep(r)
    \/ \E r \in RunIds : AnnounceStep(r)
    \/ Tick

SpecVerified ==
    /\ InitVerified /\ [][NextVerified]_vars
    /\ \A r \in RunIds :
          /\ WF_vars(\E ph \in {"end", "error"} : AttemptEnds(r, ph))
          /\ WF_vars(WaitTimesOut(r))
          /\ WF_vars(RetryStep(r)) /\ WF_vars(VerifyStep(r)) /\ WF_vars(AnnounceStep(r))
    /\ WF_vars(Tick)

\* Registry lifecycle: runs without retry or verification policy, with the
\* sweeper, release, the startup restore and a process restart.
InitLifecycle ==
    InitWith({"r1"}, {[retryOnFailure |-> FALSE]}, {"keep", "delete"}, {ZeroDelayConfig})

NextLifecycle ==
    \/ RegisterStep
    \/ \E r \in RunIds, ph \in {"start", "end", "error"} : ListenerEvent(r, ph)
    \/ \E r \in RunIds, st \in {"ok", "error", "timeout"}, hs \in BOOLEAN, he \in BOOLEAN :
           ProberReply(r, st, hs, he)
    \/ \E r \in RunIds : AnnounceStep(r)
    \/ Sweep
    \/ \E ok \in BOOLEAN : SweepRpcDone(ok)
    \/ \E r \in RunIds : Release(r)
    \/ InitRegistry
    \/ Restart
    \/ Tick

SpecLifecycle == InitLifecycle /\ [][NextLifecycle]_vars

\* Startup restore: a run without retry or verification policy and without
\* archival; attempts end, agent.wait calls and announces return, the process
\* restarts, the registry is initialised (before or after registrations of the new
\* process), and the snapshot file may be unwritable for a while.
InitRestore ==
    InitWith({"r1"}, {[retryOnFailure |-> FALSE]}, {"keep", "delete"}, {BackoffConfig})

NextRestore ==
    \/ RegisterStep
    \/ \E r \in RunIds, ph \in {"end", "error"} : ListenerEvent(r, ph)
    \/ \E r \in RunIds, st \in {"ok", "error", "timeout"}, hs \in BOOLEAN, he \in BOOLEAN :
           ProberReply(r, st, hs, he)
    \/ \E r \in RunIds : AnnounceStep(r)
    \/ InitRegistry
    \/ Restart
    \/ \E b \in BOOLEAN : StoreFault(b)

SpecRestore == InitRestore /\ [][NextRestore]_vars

\* Cancelled retries: a run with one retry permitted, back-off and archival
\* of one sweeper period each, so that the sweeper, a release or the end of
\* cleanup can overtake the back-off timer.
InitCancel ==
    InitWith({"r1"}, {[retryOnFailure |-> TRUE, maxRetries |-> 1]},
             {"keep", "delete"}, {ArchiveBackoffConfig})

NextCancel ==
    \/ RegisterStep
    \/ \E r \in RunIds, ph \in {"end", "error"} : ListenerEvent(r, ph)
    \/ \E r \in RunIds, st \in {"ok", "error", "timeout"}, hs \in BOOLEAN, he \in BOOLEAN :
           ProberReply(r, st, hs, he)
    \/ \E r \in RunIds : RetryWake(r)
    \/ \E r \in RunIds, ok \in BOOLEAN : RetryStartDone(r, ok)
    \/ \E r \in RunIds : AnnounceStep(r)
    \/ Sweep
    \/ \E ok \in BOOLEAN : SweepRpcDone(ok)
    \/ \E r \in RunIds : Release(r)
    \/ Tick

SpecCancel == InitCancel /\ [][NextCancel]_vars

\* Archival: two runs without retry or verification policy, archived one
\* minute after registration; attempts end, announces return, the sweeper
\* runs and its sessions.delete calls return or throw.
InitSweep ==
    InitWith({"r1", "r2"}, {[retryOnFailure |-> FALSE]}, {"keep"}, {ZeroDelayConfig})

NextSweep ==
    \/ RegisterStep
    \/ \E r \in RunIds : AttemptEnds(r, "end")
    \/ \E r \in RunIds : AnnounceStep(r)
    \/ Sweep
    \/ \E ok \in BOOLEAN : SweepRpcDone(ok)
    \/ Tick

SpecSweep == InitSweep /\ [][NextSweep]_vars


\* Registration: two runs registered with any of the per-call overrides under
\* any of the process configurations; the configuration changes between
\* registrations and the snapshot file may be unwritable.
InitPolicy == InitWith({"r1", "r2"}, PolicyOverrides, {"keep"}, PolicyConfigs)

NextPolicy ==
    \/ RegisterStep
    \/ \E c \in PolicyConfigs : ConfigChange(c)
    \/ \E b \in BOOLEAN : StoreFault(b)

SpecPolicy == InitPolicy /\ [][NextPolicy]_vars

\* Announce: a run with one retry permitted and verification by agent.query;
\* attempts end, agent.wait calls, retries, verifications and announces
\* return, the process restarts and the registry is initialised.
InitAnnounce ==
    InitWith({"r1"},
             {[retryOnFailure |-> TRUE, maxRetries |-> 1,
               verifyCompletion |-> TRUE, verificationPrompt |-> "done?"]},
             {"keep", "delete"}, {QuickConfig})

NextAnnounce ==
    \/ RegisterStep
    \/ \E r \in RunIds, ph \in {"start", "end", "error"} : ListenerEvent(r, ph)
    \/ \E r \in RunIds, st \in {"ok", "error", "timeout"}, hs \in BOOLEAN, he \in BOOLEAN :
           ProberReply(r, st, hs, he)
    \/ \E r \in RunIds : RetryWake(r)
    \/ \E r \in RunIds, ok \in BOOLEAN : RetryStartDone(r, ok)
    \/ \E r \in RunIds : VerifyStep(r)
    \/ \E r \in RunIds : AnnounceStep(r)
    \/ InitRegistry
    \/ Restart

SpecAnnounce == InitAnnounce /\ [][NextAnnounce]_vars

\* Verification hooks: a run verified by the hook "h", by agent.query or by
\* the built-in check; the hook is registered and unregistered at any time,
\* attempts end, and verifications come back with an answer, a throw or a
\* timeout.
InitHook == InitWith({"r1"}, HookOverrides, {"keep", "delete"}, {QuickConfig})

NextHook ==
    \/ RegisterStep
    \/ \E r \in RunIds, ph \in {"end", "error"} : ListenerEvent(r, ph)
    \/ \E r \in RunIds : WaitTimesOut(r)
    \/ \E r \in RunIds : RetryStep(r)
    \/ \E r \in RunIds, reply \in VerificationReplies : VerificationReturns(r, reply)
    \/ \E r \in RunIds : AnnounceStep(r)
    \/ \E h \in HookNames : registerVerificationHook(h)
    \/ \E h \in HookNames : unregisterVerificationHook(h)

SpecHook == InitHook /\ [][NextHook]_vars

\* Snapshot: a run with retries on whose maxRetries comes from the override,
\* from the process configuration of the registration, or from an override
\* key holding undefined; the process configuration changes at any time,
\* attempts end, retries and announces run.
SnapshotOverrides ==
    {[retryOnFailure |-> TRUE, maxRetries |-> 1],
     [retryOnFailure |-> TRUE],
     [retryOnFailure |-> TRUE, undefined |-> {"maxRetries"}]}

SnapshotConfigs ==
    {[archiveAfterMinutes |-> 0,
      orchestration |-> [initialDelayMs |-> 0, maxRetries |-> n]] : n \in 1..MaxRetriesCfg}

InitSnapshot ==
    InitWith({"r1"}, SnapshotOverrides, {"keep", "delete"}, SnapshotConfigs)

NextSnapshot ==
    \/ RegisterStep
    \/ \E c \in SnapshotConfigs : ConfigChange(c)
    \/ \E r \in RunIds, ph \in {"start", "end", "error"} : ListenerEvent(r, ph)
    \/ \E r \in RunIds, st \in {"ok", "error", "timeout"} : ProberReply(r, st, FALSE, FALSE)
    \/ \E r \in RunIds : RetryStep(r)
    \/ \E r \in RunIds : AnnounceStep(r)

SpecSnapshot == InitSnapshot /\ [][NextSnapshot]_vars

\* Removal: a run with one retry permitted and verification by agent.query,
\* archived one minute after registration; it is released, swept or deleted
\* by its cleanup while events, agent.wait replies, the retry, the
\* verification and announces are in flight.
InitRemoved ==
    InitWith({"r1"},
             {[retryOnFailure |-> TRUE, maxRetries |-> 1,
               verifyCompletion |-> TRUE, verificationPrompt |-> "done?"]},
             {"keep", "delete"}, {ArchiveBackoffConfig})

NextRemoved ==
    \/ RegisterStep
    \/ \E r \in RunIds, ph \in {"end", "error"} : ListenerEvent(r, ph)
    \/ \E r \in RunIds, st \in {"ok", "error", "timeout"} : ProberReply(r, st, FALSE, FALSE)
    \/ \E r \in RunIds : RetryStep(r)
    \/ \E r \in RunIds : VerifyStep(r)
    \/ \E r \in RunIds : AnnounceStep(r)
    \/ Sweep
    \/ \E ok \in BOOLEAN : SweepRpcDone(ok)
    \/ \E r \in RunIds : Release(r)
    \/ Tick

SpecRemoved == InitRemoved /\ [][NextRemoved]_vars

\* Sweeper: two runs without retry or verification policy, registered while
\* archival is on (one minute) or off and still running; runs are released,
\* the sweeper runs, the process restarts and the registry is initialised
\* before or after the registrations of the new process.
InitSweeper ==
    InitWith({"r1", "r2"}, {[retryOnFailure |-> FALSE]}, {"keep"},
             {ZeroDelayConfig, QuickConfig})

NextSweeper ==
    \/ RegisterStep
    \/ \E c \in {ZeroDelayConfig, QuickConfig} : ConfigChange(c)
    \/ Sweep
    \/ \E ok \in BOOLEAN : SweepRpcDone(ok)
    \/ \E r \in RunIds : Release(r)
    \/ Tick
    \/ InitRegistry
    \/ Restart

SpecSweeper == InitSweeper /\ [][NextSweeper]_vars

\* Startup: two runs without retry or verification policy and without
\* archival; attempts end, announces return, the process restarts, and the
\* new process registers runs before or after it initialises the registry.
InitStartup ==
    InitWith({"r1", "r2"}, {[retryOnFailure |-> FALSE]}, {"keep"}, {QuickConfig})

NextStartup ==
    \/ RegisterStep
    \/ \E r \in RunIds : AttemptEnds(r, "end")
    \/ \E r \in RunIds : AnnounceStep(r)
    \/ InitRegistry
    \/ Restart

SpecStartup == InitStartup /\ [][NextStartup]_vars

\* Completion: a run verified by agent.query, with or without a retry
\* permitted, and archival off; every attempt in progress ends with a
\* lifecycle event, the timers fire, agent.start succeeds, verdicts arrive,
\* agent.wait calls return or time out, and every announce flow returns
\* success.
AnnounceSucceeds(r) == \E i \in 1..Len(announces[r]) : AnnounceDone(r, i, TRUE)

InitFinal == InitWith({"r1"}, QueryOverrides, {"keep", "delete"}, {BackoffConfig})

NextFinal ==
    \/ RegisterStep
    \/ \E r \in RunIds, ph \in {"end", "error"} : AttemptEnds(r, ph)
    \/ \E r \in RunIds : WaitTimesOut(r)
    \/ \E r \in RunIds : WaitReturns(r)
    \/ \E r \in RunIds : RetryStep(r)
    \/ \E r \in RunIds : VerifyStep(r)
    \/ \E r \in RunIds : AnnounceSucceeds(r)
    \/ Tick

SpecFinal ==
    /\ InitFinal /\ [][NextFinal]_vars
    /\ \A r \in RunIds :
          /\ WF_vars(\E ph \in {"end", "error"} : AttemptEnds(r, ph))
          /\ WF_vars(WaitTimesOut(r) \/ WaitReturns(r))
          /\ WF_vars(RetryStep(r)) /\ WF_vars(VerifyStep(r))
          /\ WF_vars(AnnounceSucceeds(r))
    /\ WF_vars(Tick)

\* Hook registry: hooks are registered and unregistered by name and the
\* registry is reset, while runs verified by the hook "h" are registered,
\* end, are verified and announced.
InitReset ==
    InitWith({"r1", "r2"},
             {[retryOnFailure |-> FALSE, verifyCompletion |-> TRUE, verificationHook |-> "h"]},
             {"keep"}, {QuickConfig})

NextReset ==
    \/ RegisterStep
    \/ \E r \in RunIds : AttemptEnds(r, "end")
    \/ \E r \in RunIds, reply \in {"yes", "no"} : VerificationReturns(r, reply)
    \/ \E r \in RunIds : AnnounceStep(r)
    \/ \E h \in HookNames : registerVerificationHook(h)
    \/ \E h \in HookNames : unregisterVerificationHook(h)
    \/ Reset

SpecReset == InitReset /\ [][NextReset]_vars

\* Failing saves: a run with one retry permitted, verification by agent.query
\* and archival after one minute; every attempt ends with one end or error
\* event, agent.wait calls time out or return once the attempt has ended, and
\* every operation of the engine runs while the snapshot file is writable or
\* not.
InitFault ==
    InitWith({"r1"},
             {[retryOnFailure |-> TRUE, maxRetries |-> 1,
               verifyCompletion |-> TRUE, verificationPrompt |-> "done?"]},
             {"keep", "delete"}, {ZeroDelayConfig})

NextFault ==
    \/ RegisterStep
    \/ \E r \in RunIds, ph \in {"end", "error"} : AttemptEnds(r, ph)
    \/ \E r \in RunIds : WaitTimesOut(r)
    \/ \E r \in RunIds : WaitReturns(r)
    \/ \E r \in RunIds : RetryStep(r)
    \/ \E r \in RunIds : VerifyStep(r)
    \/ \E r \in RunIds : AnnounceStep(r)
    \/ Sweep
    \/ \E ok \in BOOLEAN : SweepRpcDone(ok)
    \/ \E r \in RunIds : Release(r)
    \/ Tick
    \/ \E b \in BOOLEAN : StoreFault(b)

SpecFault == InitFault /\ [][NextFault]_vars
\* ---------------------------------------------------------------- claims
\* what one step did to run r
RetryScheduled(r) ==
    /\ r \in DOMAIN runs /\ r \in DOMAIN runs'
    /\ runs'[r].retryCount = runs[r].retryCount + 1

CleanupBegun(r) ==
    /\ r \in DOMAIN runs /\ r \in DOMAIN runs'
    /\ ~runs[r].cleanupHandled /\ runs'[r].cleanupHandled

AnnounceInvoked(r) == Len(announces'[r]) > Len(announces[r])

\* the three conditions of the retry policy, read from the record as it is
\* when a terminal signal with the given status arrives
RetryPermitted(r, status) ==
    /\ runs[r].orchestrationConfig.retryOnFailure
    /\ runs[r].retryCount < runs[r].maxRetries
    /\ status = "error"

\* C1: the announce flow is invoked again for a runId only after a previous
\* invocation returned failure: never two announce invocations of one runId
\* in flight together, and at most one of them returns success.
C1_AnnounceOnlyAfterFailure ==
    \A r \in RunIds : Len(announces[r]) <= 1 /\ annOk[r] <= 1

SignalStep(r) ==
    \/ \E ph \in {"start", "end", "error"} : ListenerEvent(r, ph)
    \/ \E st \in {"ok", "error", "timeout"}, hs \in BOOLEAN, he \in BOOLEAN :
           ProberReply(r, st, hs, he)
    \/ \E passed \in BOOLEAN : VerifyDone(r, passed)

\* C3: once a record's cleanupCompletedAt is set, no lifecycle event, no
\* agent.wait reply and no verification outcome changes any field of it.
C3_CompletedRecordFrozen ==
    [][\A r \in RunIds :
          (r \in DOMAIN runs /\ runs[r].cleanupCompletedAt # 0 /\ SignalStep(r))
              => (r \in DOMAIN runs' /\ runs'[r] = runs[r])]_vars

\* C4 as stated: on an end or error event of a known run, a retry is
\* scheduled exactly when retryOnFailure, retryCount < maxRetries and the
\* outcome is error; and then the event neither begins cleanup nor announces.
C4_RetryIffPermitted ==
    [][\A r \in RunIds, ph \in {"end", "error"} :
          (r \in DOMAIN runs /\ ListenerEvent(r, ph))
              => /\ RetryScheduled(r) <=> RetryPermitted(r, ph)
                 /\ RetryPermitted(r, ph) => ~CleanupBegun(r) /\ ~AnnounceInvoked(r)]_vars

\* C4 amended: on an end or error event of a known run, a retry is scheduled
\* exactly when the three conditions hold and no retry of that run is in
\* flight (runId not in pendingRetries); whenever the three conditions hold,
\* the event neither begins cleanup nor invokes the announce flow.
C4_RetryIffPermittedAndNotPending ==
    [][\A r \in RunIds, ph \in {"end", "error"} :
          (r \in DOMAIN runs /\ ListenerEvent(r, ph))
              => /\ RetryScheduled(r)
                        <=> (RetryPermitted(r, ph) /\ r \notin pendingRetries)
                 /\ RetryScheduled(r)
                        => /\ r \in pendingRetries'
                           /\ retryTask'[r].phase = "delay"
                           /\ retryTask[r].phase = "idle"
                 /\ RetryPermitted(r, ph) => ~CleanupBegun(r) /\ ~AnnounceInvoked(r)]_vars

\* C4 witness: an error event arrived while the agent.start call of retry 1
\* was pending and a second retry was still permitted: the event recorded the
\* error, scheduled nothing and began no cleanup
C4_Witness ==
    \E r \in DOMAIN runs :
        /\ retryTask[r].phase = "start" /\ r \in pendingRetries
        /\ runs[r].outcome = ErrOutcome("boom")
        /\ runs[r].orchestrationConfig.retryOnFailure
        /\ runs[r].retryCount = 1 /\ runs[r].maxRetries = 2
        /\ ~runs[r].cleanupHandled /\ announces[r] = <<>> /\ annOk[r] = 0

\* C5: an agent.wait reply with status ok or error follows the listener's
\* post-completion policy: an error reply while a retry is permitted, and an
\* ok reply while verifyCompletion is on, begin no cleanup and no announce.
C5_ProberAppliesPolicy ==
    [][\A r \in RunIds, st \in {"ok", "error"}, hs \in BOOLEAN, he \in BOOLEAN :
          (/\ r \in DOMAIN runs
           /\ ProberReply(r, st, hs, he)
           /\ \/ RetryPermitted(r, st)
              \/ st = "ok" /\ runs[r].orchestrationConfig.verifyCompletion)
              => ~CleanupBegun(r) /\ ~AnnounceInvoked(r)]_vars

\* C6: each retry is scheduled from retryCount k to k + 1 with k < maxRetries,
\* its back-off delay is min(maxDelayMs, initialDelayMs * backoffMultiplier^k),
\* nextRetryAt is the time of scheduling plus that delay, and agent.start is
\* called no earlier than nextRetryAt, with the retry numbers 1, 2, ... in order.
C6_BackoffDelay ==
    [][\A r \in RunIds :
          /\ (r \in DOMAIN runs /\ r \in DOMAIN runs'
                 /\ runs'[r].retryCount # runs[r].retryCount)
                => LET k == runs[r].retryCount
                       c == runs[r].orchestrationConfig
                       d == Min(c.maxDelayMs, c.initialDelayMs * Pow(c.backoffMultiplier, k))
                   IN  /\ k < runs[r].maxRetries
                       /\ runs'[r].retryCount = k + 1
                       /\ runs'[r].nextRetryAt = now + d
                       /\ retryTask'[r] = [phase |-> "delay", n |-> k + 1, wakeAt |-> now + d]
          /\ (r \in DOMAIN runs /\ Len(starts'[r]) > Len(starts[r]))
                => /\ now >= runs[r].nextRetryAt
                   /\ starts'[r] = Append(starts[r], Len(starts[r]) + 1)
                   /\ starts'[r][Len(starts'[r])] = runs[r].retryCount]_vars

\* C6 witness: the second retry of a run was scheduled with the capped delay
\* (60000 * 2 = 120000 capped at maxDelayMs = 90000), after the first was
\* dispatched
C6_Witness ==
    \E r \in DOMAIN runs :
        /\ runs[r].retryCount = 2 /\ starts[r] = <<1>>
        /\ retryTask[r].phase = "delay"
        /\ runs[r].nextRetryAt = retryTask[r].wakeAt
        /\ runs[r].nextRetryAt - runs[r].endedAt = 90000
        /\ runs[r].orchestrationConfig.initialDelayMs = 60000

\* an announce flow in flight for run r
InFlight(r) == {announces[r][i] : i \in 1..Len(announces[r])}

\* C7: with retryOnFailure and maxRetries = N, when every attempt ends with an
\* error event, never more than N retries are dispatched, and from the
\* registration of the run on, eventually the retries 1..N have been
\* dispatched and an announce is invoked whose payload has
\* outcome.status = error and retryCount = N.
C7_ExhaustedRetriesAnnounce ==
    \A r \in RunIds, N \in 1..MaxRetriesCfg :
        /\ [](r \in DOMAIN runs /\ runs[r].maxRetries = N => Len(starts[r]) <= N)
        /\ [](r \in DOMAIN runs /\ runs[r].maxRetries = N
                   /\ runs[r].retryCount = 0 /\ runs[r].endedAt = 0
                 => <>(/\ starts[r] = [j \in 1..N |-> j]
                       /\ \E a \in InFlight(r) :
                              a.outcome.status = "error" /\ a.retryCount = N))

\* C8: when the first attempt ends with an error event while a retry is
\* permitted and the retried attempt ends with an end event, no announce is
\* invoked before that end event: every announce invoked comes after the one
\* agent.start of retry 1 and carries outcome.status = ok and retryCount = 1.
C8_RetryThenSuccessAnnounce ==
    \A r \in RunIds :
        /\ Len(starts[r]) <= 1
        /\ \A a \in InFlight(r) :
               a.outcome.status = "ok" /\ a.retryCount = 1 /\ starts[r] = <<1>>

\* the state right after the first end event of run r was followed by a
\* failing verdict that scheduled a retry
FirstVerdictFailed(r) ==
    /\ r \in DOMAIN runs
    /\ runs[r].verificationResult = "failed"
    /\ runs[r].outcome = ErrOutcome("Verification failed")
    /\ runs[r].retryCount = 1 /\ runs[r].maxRetries = 1
    /\ retryTask[r].phase = "delay" /\ starts[r] = <<>>

\* C9: with verifyCompletion, retryOnVerificationFailure, retryOnFailure and
\* maxRetries = 1, once the first end event was followed by a failing verdict
\* (verificationResult failed, outcome rewritten to error, retry scheduled),
\* exactly one retry is dispatched and an announce is eventually invoked that
\* carries verificationResult = failed and retryCount = 1.
C9_VerificationFailureRetries ==
    \A r \in RunIds :
        [](FirstVerdictFailed(r)
             => <>(/\ starts[r] = <<1>>
                   /\ \E a \in InFlight(r) :
                          a.verificationResult = "failed" /\ a.retryCount = 1))

\* a verification of run r is in progress and a failing verdict cannot
\* schedule a retry
VerifyingWithoutRetry(r) ==
    /\ r \in DOMAIN runs /\ verifTask[r].phase # "idle"
    /\ \/ ~runs[r].orchestrationConfig.retryOnVerificationFailure
       \/ ~runs[r].orchestrationConfig.retryOnFailure
       \/ runs[r].retryCount >= runs[r].maxRetries

\* C10: when verification yields a failing verdict and no retry is scheduled
\* for it (retryOnVerificationFailure off, or retryOnFailure off, or
\* retryCount at maxRetries), the announce flow is eventually invoked for the
\* run with verificationResult = failed (unless the verdict passes).
C10_FailedVerdictAnnounced ==
    \A r \in RunIds :
        [](VerifyingWithoutRetry(r)
             => <>(\/ r \in DOMAIN runs /\ runs[r].verificationResult = "passed"
                   \/ \E a \in InFlight(r) : a.verificationResult = "failed"))

\* the first initSubagentRegistry call of a process
FirstInit == InitRegistry /\ ~restoreAttempted

\* a record the restore takes from the snapshot
Restored(r) == r \in DOMAIN disk /\ r \notin DOMAIN runs

\* C11: on startup restore, a restored record with cleanupCompletedAt is left
\* untouched with no announce and no prober started; one with endedAt and
\* without cleanupCompletedAt gets exactly one announce; one without endedAt
\* gets the wait prober re-armed and no announce.
C11_RestoreResumesEachRecord ==
    [][\A r \in RunIds :
          (FirstInit /\ Restored(r))
              => /\ r \in DOMAIN runs'
                 /\ disk[r].cleanupCompletedAt # 0
                        => /\ runs'[r] = disk[r]
                           /\ announces'[r] = announces[r]
                           /\ probers'[r] = probers[r]
                 /\ (disk[r].cleanupCompletedAt = 0 /\ disk[r].endedAt # 0)
                        => /\ Len(announces'[r]) = Len(announces[r]) + 1
                           /\ probers'[r] = probers[r]
                 /\ (disk[r].cleanupCompletedAt = 0 /\ disk[r].endedAt = 0)
                        => /\ probers'[r] = probers[r] + 1
                           /\ announces'[r] = announces[r]]_vars

\* a finished record kept after its announce returned failure
AnnounceFailed(e) ==
    /\ e.cleanup = "keep" /\ e.endedAt # 0
    /\ ~e.cleanupHandled /\ e.cleanupCompletedAt = 0

\* a terminal signal for run r: an end or error event, an ok or error reply
TerminalSignal(r) ==
    \/ \E ph \in {"end", "error"} : ListenerEvent(r, ph)
    \/ \E st \in {"ok", "error"}, hs \in BOOLEAN, he \in BOOLEAN :
           ProberReply(r, st, hs, he)

ResumedAs(e) == {e, [e EXCEPT !.cleanupHandled = TRUE]}

\* C13 as stated: the first initRegistry call of a process reads the snapshot
\* and every later call changes nothing; the restore inserts exactly the
\* persisted records whose runId is not in memory, and every in-memory record
\* keeps all its fields.
C13_RestoreOnceKeepsMemory ==
    [][InitRegistry
          => /\ restoreAttempted => UNCHANGED vars
             /\ ~restoreAttempted
                   => /\ restoreAttempted'
                      /\ DOMAIN runs' = (DOMAIN runs) \cup (DOMAIN disk)
                      /\ \A r \in (DOMAIN disk) \ (DOMAIN runs) :
                             runs'[r] \in ResumedAs(disk[r])
                      /\ \A r \in DOMAIN runs : runs'[r] = runs[r]]_vars

\* C13 amended: as above, except that an in-memory record keeps all its
\* fields but cleanupHandled, which the resume pass of the first call sets
\* (starting one announce) when the record has endedAt set, cleanupCompletedAt
\* unset and cleanupHandled false; the persisted record never replaces it.
C13_RestoreOnceNeverReplacesMemory ==
    [][InitRegistry
          => /\ restoreAttempted => UNCHANGED vars
             /\ ~restoreAttempted
                   => /\ restoreAttempted'
                      /\ DOMAIN runs' = (DOMAIN runs) \cup (DOMAIN disk)
                      /\ \A r \in (DOMAIN disk) \ (DOMAIN runs) :
                             runs'[r] \in ResumedAs(disk[r])
                      /\ \A r \in DOMAIN runs :
                             \/ runs'[r] = runs[r]
                             \/ /\ runs[r].endedAt # 0
                                /\ runs[r].cleanupCompletedAt = 0
                                /\ ~runs[r].cleanupHandled
                                /\ runs'[r] = [runs[r] EXCEPT !.cleanupHandled = TRUE]
                                /\ Len(announces'[r]) = Len(announces[r]) + 1]_vars

\* C13 witness: the restore ran after a registration of the same runId whose
\* save had failed: the in-memory record differs from the persisted one (in
\* its cleanup policy), was kept, and was resumed (a second agent.wait call)
C13_Witness ==
    \E r \in (DOMAIN runs) \cap (DOMAIN disk) :
        /\ restoreAttempted /\ r \in resumedRuns
        /\ runs[r].cleanup # disk[r].cleanup
        /\ runs[r].endedAt = 0 /\ probers[r] = 2

\* C14: once a record's cleanupCompletedAt holds a value, no step clears it
\* or replaces it by a different value.
C14_CleanupCompletedAtSetOnce ==
    [][\A r \in RunIds :
          (r \in DOMAIN runs /\ r \in DOMAIN runs' /\ runs[r].cleanupCompletedAt # 0)
              => runs'[r].cleanupCompletedAt = runs[r].cleanupCompletedAt]_vars

\* C15: a record with cleanupHandled either has cleanupCompletedAt set or has
\* an announce in flight, also right after a startup restore.
C15_HandledMeansCompletedOrInFlight ==
    \A r \in DOMAIN runs :
        runs[r].cleanupHandled
            => runs[r].cleanupCompletedAt # 0 \/ announces[r] # <<>>

\* C16: when the back-off timer of a retry fires and the record is gone from
\* the registry or has cleanupCompletedAt set, the retry ends there: no
\* agent.start is issued and no record changes.
C16_RetryCancelledWhenGone ==
    [][\A r \in RunIds :
          (/\ RetryWake(r)
           /\ r \notin DOMAIN runs \/ runs[r].cleanupCompletedAt # 0)
              => /\ starts' = starts
                 /\ runs' = runs /\ disk' = disk
                 /\ retryTask'[r].phase = "idle"
                 /\ r \notin pendingRetries']_vars

\* C16 witness: a retry was scheduled (retryCount 1), cleanup completed during
\* the back-off, and the retry ended without an agent.start
C16_Witness ==
    \E r \in DOMAIN runs :
        /\ runs[r].retryCount = 1 /\ runs[r].cleanupCompletedAt # 0
        /\ now >= runs[r].nextRetryAt
        /\ starts[r] = <<>>
        /\ retryTask[r].phase = "idle" /\ r \notin pendingRetries

\* C17: per runId at most one scheduled retry and at most one verification
\* are in progress: the runId is in pendingRetries exactly while a
\* scheduleTaskRetry call is between its retryCount increment and its return,
\* and in pendingVerifications exactly while one handleTaskCompletion call
\* awaits its verdict; retryCount is incremented only when no retry of the
\* run is in progress.
C17_OneRetryOneVerification ==
    /\ [](\A r \in RunIds :
             /\ r \in pendingRetries <=> retryTask[r].phase # "idle"
             /\ r \in pendingVerifications <=> verifTask[r].phase # "idle"
             /\ verifTask[r].calls <= 1)
    /\ [][\A r \in RunIds :
             (retryTask'[r].phase = "delay" /\ retryTask'[r] # retryTask[r])
                 => /\ retryTask[r].phase = "idle" /\ r \notin pendingRetries
                    /\ r \in pendingRetries']_vars

\* C17 witness: while a verification of the run awaited its verdict, an error
\* event scheduled a retry, and a further end event arrived: still one retry
\* and one verification in progress
C17_Witness ==
    \E r \in DOMAIN runs :
        /\ r \in pendingRetries /\ r \in pendingVerifications
        /\ retryTask[r].phase = "delay" /\ verifTask[r].calls = 1
        /\ runs[r].retryCount = 1 /\ runs[r].outcome.status = "ok"

\* C18: cleanup begins (and the announce is invoked) only for a record with
\* endedAt set and with no retry and no verification of the run pending; and
\* once cleanup has begun or completed for a record, no retry is scheduled or
\* dispatched for it and its endedAt and outcome are not cleared.
C18_CleanupAfterRetriesAndVerification ==
    [][\A r \in RunIds :
          /\ (CleanupBegun(r) \/ AnnounceInvoked(r))
                => /\ r \in DOMAIN runs' /\ runs'[r].endedAt # 0
                   /\ r \notin pendingRetries' /\ r \notin pendingVerifications'
          /\ (/\ r \in DOMAIN runs /\ r \in DOMAIN runs'
              /\ runs[r].cleanupHandled \/ runs[r].cleanupCompletedAt # 0)
                => /\ ~RetryScheduled(r)
                   /\ starts'[r] = starts[r]
                   /\ runs'[r].endedAt # 0 /\ runs'[r].outcome.status # "none"]_vars

\* C19: an end or error event for a record whose cleanup has begun or
\* completed schedules no retry, does not clear endedAt or outcome, leaves
\* cleanupHandled as it is and invokes no announce.
C19_TerminalEventOnTerminalRecord ==
    [][\A r \in RunIds, ph \in {"end", "error"} :
          (/\ r \in DOMAIN runs
           /\ runs[r].cleanupHandled \/ runs[r].cleanupCompletedAt # 0
           /\ ListenerEvent(r, ph))
              => /\ r \in DOMAIN runs'
                 /\ ~RetryScheduled(r) /\ retryTask'[r] = retryTask[r]
                 /\ runs'[r].endedAt # 0 /\ runs'[r].outcome.status # "none"
                 /\ runs'[r].cleanupHandled = runs[r].cleanupHandled
                 /\ ~AnnounceInvoked(r)]_vars

\* the records whose archiveAtMs is set and not after the time at
Due(at) ==
    {r \in DOMAIN runs : runs[r].archiveAtMs # 0 /\ runs[r].archiveAtMs <= at}

\* a sweep removes one due record and calls sessions.delete for its session
SweepRemoves(at) ==
    \E r \in Due(at) :
        /\ runs' = [x \in (DOMAIN runs) \ {r} |-> runs[x]]
        /\ sessionsDeleted' = sessionsDeleted \cup {runs[r].childSessionKey}
        /\ sweepTask'.phase = "rpc" /\ sweepTask'.at = at
        /\ sweeper' = sweeper

\* a sweep ends: no record is due, the snapshot is saved if a record was
\* removed, and the sweeper stops if the registry is empty
SweepEnds(at, mutated) ==
    /\ Due(at) = {}
    /\ runs' = runs /\ sessionsDeleted' = sessionsDeleted
    /\ disk' = IF mutated /\ ~saveFails THEN runs ELSE disk
    /\ sweepTask' = IdleSweep
    /\ sweeper' = (sweeper /\ DOMAIN runs # {})

\* C20: a sweep started at time t removes the records with archiveAtMs set
\* and <= t, one at a time with one sessions.delete call each, whether the
\* previous call returned or threw, changes no other record, ends only when
\* no such record is left, and then stops the sweeper if the registry is
\* empty.
C20_SweepRemovesExpired ==
    [][/\ Sweep => SweepRemoves(now) \/ SweepEnds(now, FALSE)
       /\ \A ok \in BOOLEAN :
              SweepRpcDone(ok)
                  => SweepRemoves(sweepTask.at) \/ SweepEnds(sweepTask.at, TRUE)]_vars

\* C20 witness: a sweep has removed the expired record of r1, with its
\* sessions.delete call, and left the record of r2, registered later; the
\* sweeper is still active
C20_Witness ==
    /\ sweepTask = IdleSweep /\ sweeper
    /\ sessionsDeleted = {"r1"}
    /\ DOMAIN runs = {"r2"} /\ disk = runs
    /\ runs["r2"].archiveAtMs > now


\* registerSubagentRun has just created the record of r
Registers(r) == r \notin known /\ r \in known'

\* the record of r as a registration at this moment creates it: no retry, no
\* cleanup, no end, no outcome, maxRetries as in the policy stored with the
\* record (undefined if that policy has none), and archiveAtMs after the
\* configured number of minutes (60 by default; none if that number is <= 0)
FreshRecord(r) ==
    LET minutes == IF "archiveAfterMinutes" \in DOMAIN userConfig
                   THEN userConfig.archiveAfterMinutes ELSE 60
        entry == runs'[r]
    IN  /\ r \in DOMAIN runs'
        /\ entry.retryCount = 0 /\ entry.cleanupHandled = FALSE
        /\ entry.endedAt = 0 /\ entry.outcome = NoOutcome
        /\ entry.cleanupCompletedAt = 0
        /\ entry.createdAt = now /\ entry.startedAt = now
        /\ entry.maxRetries = IF "maxRetries" \in DOMAIN entry.orchestrationConfig
                              THEN entry.orchestrationConfig.maxRetries ELSE -1
        /\ entry.archiveAtMs = IF minutes <= 0 THEN 0 ELSE now + minutes * 60000

HardCodedDefault ==
    [retryOnFailure |-> FALSE, maxRetries |-> 3, backoffMultiplier |-> 2,
     initialDelayMs |-> 1000, maxDelayMs |-> 60000, verifyCompletion |-> FALSE,
     verificationTimeoutSeconds |-> 30, retryOnVerificationFailure |-> TRUE,
     verificationPrompt |-> "", verificationHook |-> ""]

\* the stored policy has the value for field f that the precedence per-call
\* override, process configuration, default gives
StoredByPrecedence(stored, f, override, cfg) ==
    /\ f \in DOMAIN stored
    /\ stored[f] = IF f \in DOMAIN override THEN override[f]
                   ELSE IF "orchestration" \in DOMAIN cfg /\ f \in DOMAIN cfg.orchestration
                        THEN cfg.orchestration[f]
                        ELSE HardCodedDefault[f]

\* C22: for every orchestration field, the value stored in a registered
\* record's orchestrationConfig is the per-call override's value if the
\* override supplies one, otherwise the process configuration's value if
\* present, otherwise the hard-coded default.
C22_StoredPolicyByPrecedence ==
    [][\A r \in RunIds, o \in PolicyOverrides :
          Register(r, "keep", o)
              => \A f \in DOMAIN HardCodedDefault :
                     StoredByPrecedence(runs'[r].orchestrationConfig, f, o, userConfig)]_vars

\* the parameters of the announce that this step starts for r
Announced(r) == announces'[r][Len(announces'[r])]

\* C23: every announce invocation carries the run summary of the record at
\* the moment cleanup began: childRunId is the runId the run was registered
\* with, and retryCount, verificationResult, outcome, startedAt and endedAt
\* are the record's; so is the announce that the startup restore starts from
\* a persisted record.
C23_AnnounceCarriesRunSummary ==
    [][\A r \in RunIds :
          AnnounceInvoked(r)
              => /\ Len(announces'[r]) = Len(announces[r]) + 1
                 /\ r \in DOMAIN runs' /\ runs'[r].cleanupHandled
                 /\ r \in DOMAIN runs => ~runs[r].cleanupHandled
                 /\ InitRegistry => r \in DOMAIN disk /\ ~disk[r].cleanupHandled
                 /\ Announced(r).childRunId = r
                 /\ Announced(r).retryCount = runs'[r].retryCount
                 /\ Announced(r).verificationResult = runs'[r].verificationResult
                 /\ Announced(r).outcome = runs'[r].outcome
                 /\ Announced(r).startedAt = runs'[r].startedAt
                 /\ Announced(r).endedAt = runs'[r].endedAt]_vars

\* C23 witness: after a restart the restore has announced the persisted
\* record of a run that was retried once and whose verification failed
C23_Witness ==
    /\ restarts = 1 /\ "r1" \in resumedRuns
    /\ Len(announces["r1"]) = 1
    /\ announces["r1"][1].childRunId = "r1"
    /\ announces["r1"][1].retryCount = 1
    /\ announces["r1"][1].verificationResult = "failed"

\* C24: in every reachable state, a record with verificationAttempted = true
\* also has verificationResult set.
C24_AttemptedHasResult ==
    \A r \in DOMAIN runs :
        runs[r].verificationAttempted => runs[r].verificationResult # "none"

\* an end event finds the record of r with verification by a hook that is not
\* registered, and no verification of r in flight
HookMissing(r) ==
    /\ r \in DOMAIN runs /\ r \notin pendingVerifications
    /\ runs[r].orchestrationConfig.verifyCompletion
    /\ runs[r].orchestrationConfig.verificationHook # ""
    /\ runs[r].orchestrationConfig.verificationHook \notin verificationHooks

\* C25: when verifyCompletion is on and the configured verificationHook is
\* not in the hook registry, verification records verificationResult =
\* skipped and the run proceeds to cleanup as if verification had passed.
C25_MissingHookSkipped ==
    [][\A r \in RunIds :
          HookMissing(r) /\ ListenerEvent(r, "end")
              => /\ runs'[r].verificationResult = "skipped"
                 /\ runs'[r].outcome = OkOutcome
                 /\ runs'[r].cleanupHandled
                 /\ r \notin pendingVerifications']_vars

\* the verification of r comes back with a throw or not in time
VerificationBreaks(r) ==
    \E reply \in {"throws", "timeout"} : VerificationReturns(r, reply)

\* C26: a verification infrastructure error (the hook throws or does not
\* return within verificationTimeoutSeconds, the agent.query call fails)
\* yields a failing verdict: verificationResult becomes failed and the run
\* continues through the verification-failure path, a retry or cleanup.
C26_BrokenVerificationFails ==
    [][\A r \in RunIds :
          VerificationBreaks(r) /\ r \in DOMAIN runs
              => /\ r \in DOMAIN runs'
                 /\ runs'[r].verificationResult = "failed"
                 /\ verifTask'[r] = IdleVerif /\ r \notin pendingVerifications'
                 /\ RetryScheduled(r) \/ runs'[r].cleanupHandled]_vars

\* C27: whenever a retry is scheduled because of a verification failure, the
\* record's outcome has been rewritten from ok to {status: error, error:
\* "Verification failed: ..."} before the retry is scheduled; no retry is
\* scheduled for a record whose outcome is ok.
C27_OutcomeRewrittenBeforeRetry ==
    [][\A r \in RunIds :
          /\ (\E passed \in BOOLEAN : VerifyDone(r, passed)) /\ RetryScheduled(r)
                 => /\ runs'[r].outcome = ErrOutcome("Verification failed")
                    /\ runs'[r].verificationResult = "failed"
                    /\ r \in pendingRetries' /\ retryTask'[r].phase = "delay"
          /\ RetryScheduled(r) => runs'[r].outcome.status = "error"]_vars

\* C27 witness: the first attempt ended with an end event, its verification
\* failed and retry 1 is scheduled, with the outcome rewritten to the
\* verification failure
C27_Witness ==
    /\ "r1" \in DOMAIN runs /\ "r1" \in pendingRetries
    /\ retryTask["r1"].phase = "delay"
    /\ runs["r1"].retryCount = 1
    /\ runs["r1"].verificationResult = "failed"
    /\ runs["r1"].outcome = ErrOutcome("Verification failed")

\* C28: verification hooks form a name-keyed registry: unregister(name)
\* returns true exactly when the name was registered, and removes it and no
\* other name, so that a second unregister of the name returns false;
\* register adds the name; after reset no hook is registered and unregister
\* returns false for every name.
C28_HookRegistryByName ==
    [][/\ \A h \in HookNames :
              unregisterVerificationHook(h)
                  => /\ unregisterVerificationHookResult(h)
                            <=> h \in verificationHooks /\ h \notin verificationHooks'
                     /\ ~unregisterVerificationHookResult(h)'
                     /\ \A g \in HookNames \ {h} :
                            unregisterVerificationHookResult(g)'
                                <=> unregisterVerificationHookResult(g)
       /\ \A h \in HookNames :
              registerVerificationHook(h)
                  => /\ unregisterVerificationHookResult(h)'
                     /\ \A g \in HookNames \ {h} :
                            unregisterVerificationHookResult(g)'
                                <=> unregisterVerificationHookResult(g)
       /\ Reset => \A h \in HookNames : ~unregisterVerificationHookResult(h)']_vars

\* C28 witness: the registry was reset with a run registered; no run is left
\* and the listener is stopped, and the hook "h" was registered again since
C28_Witness ==
    /\ known = {"r1"} /\ runs = Empty /\ ~listenerStarted
    /\ verificationHooks = {"h"}

\* the state with the save failing where it succeeds, and succeeding where
\* it fails
OtherStore == [Cur EXCEPT !.saveFails = ~saveFails]

\* the state s with a sweep starting now
SweepStarts(s) ==
    [s EXCEPT !.sweepTask = [phase |-> "loop", at |-> now, mutated |-> FALSE]]

\* the i-th announce flow in flight for r has returned
AnnounceReturned(s, r, i) ==
    [s EXCEPT !.announces[r] =
        [j \in 1..(Len(announces[r]) - 1) |->
            IF j < i THEN announces[r][j] ELSE announces[r][j + 1]]]

\* the states s and t are the same but for the snapshot
SameInMemory(s, t) ==
    [s EXCEPT !.disk = Empty, !.saveFails = FALSE]
        = [t EXCEPT !.disk = Empty, !.saveFails = FALSE]

\* C29: if saving the snapshot fails during an operation (register, listener
\* event, prober reply, retry, verification, cleanup, sweep, release), the
\* operation leaves the in-memory registry in exactly the state it would
\* have with a successful save: in every reachable state, every operation
\* that can run gives the same registry whether the save fails or not.
C29_FailedSaveKeepsMemory ==
    /\ \A r \in scn.ids \ known, c \in scn.cleanups, o \in scn.overrides :
           SameInMemory(registerSubagentRun(Cur, r, c, o, userConfig),
                        registerSubagentRun(OtherStore, r, c, o, userConfig))
    /\ \A r \in RunIds, ph \in {"start", "end", "error"} :
           listenerStarted
               => SameInMemory(listener(Cur, r, ph, userConfig, verificationHooks),
                               listener(OtherStore, r, ph, userConfig, verificationHooks))
    /\ \A r \in RunIds, st \in {"ok", "error", "timeout"}, hs \in BOOLEAN, he \in BOOLEAN :
           probers[r] > 0
               => SameInMemory(waitForSubagentCompletion(Cur, r, st, hs, he),
                               waitForSubagentCompletion(OtherStore, r, st, hs, he))
    /\ \A r \in RunIds :
           retryTask[r].phase = "delay"
               => SameInMemory(retryAfterDelay(Cur, r), retryAfterDelay(OtherStore, r))
    /\ \A r \in RunIds, ok \in BOOLEAN :
           retryTask[r].phase = "start"
               => SameInMemory(retryAfterStart(Cur, r, ok),
                               retryAfterStart(OtherStore, r, ok))
    /\ \A r \in RunIds, passed \in BOOLEAN :
           verifTask[r].phase # "idle"
               => LET det == verifTask[r].detached
                      config == verifTask[r].config
                  IN  SameInMemory(
                          afterHandleTaskCompletion(
                              handleTaskCompletionVerdict(Cur, r, det, config, passed),
                              r, det),
                          afterHandleTaskCompletion(
                              handleTaskCompletionVerdict(OtherStore, r, det, config, passed),
                              r, det))
    /\ \A r \in RunIds : \A i \in 1..Len(announces[r]), did \in BOOLEAN :
           SameInMemory(
               finalizeSubagentCleanup(AnnounceReturned(Cur, r, i), r,
                                       announces[r][i].cleanup, did),
               finalizeSubagentCleanup(AnnounceReturned(OtherStore, r, i), r,
                                       announces[r][i].cleanup, did))
    /\ sweeper /\ sweepTask.phase = "idle"
           => /\ SameInMemory(sweepFinish(SweepStarts(Cur)),
                              sweepFinish(SweepStarts(OtherStore)))
              /\ \A r \in Expired(SweepStarts(Cur)) :
                     SameInMemory(sweepVisit(SweepStarts(Cur), r),
                                  sweepVisit(SweepStarts(OtherStore), r))
    /\ sweepTask.phase = "rpc"
           => /\ SameInMemory(sweepFinish(Cur), sweepFinish(OtherStore))
              /\ \A r \in Expired(Cur) :
                     SameInMemory(sweepVisit(Cur, r), sweepVisit(OtherStore, r))
    /\ \A r \in RunIds :
           SameInMemory(releaseSubagentRun(Cur, r), releaseSubagentRun(OtherStore, r))

\* C29 witness: the snapshot could not be written while the run ended, was
\* verified and announced: the registry has the completed record, the
\* snapshot still the record as it was registered
C29_Witness ==
    /\ saveFails
    /\ "r1" \in DOMAIN runs /\ runs["r1"].cleanupCompletedAt # 0
    /\ runs["r1"].verificationResult = "passed"
    /\ "r1" \in DOMAIN disk /\ disk["r1"].endedAt = 0

\* C30: assuming saves succeed, every state transition is persisted
\* immediately: whenever no step of the engine is in the middle of executing,
\* the persisted snapshot holds exactly the records of the registry, with the
\* same field values; a record removed by the sweeper is no longer in the
\* snapshot once other steps can observe the removal.
C30_SnapshotEqualsRegistry ==
    ~saveFails => disk = runs

\* C31: beginSubagentCleanup(runId) returns true exactly when the record
\* exists, its cleanupCompletedAt is unset and its cleanupHandled is false,
\* and then sets cleanupHandled = true, in that call, and saves; in every
\* other case it returns false and changes no field of any record.
C31_BeginCleanupGuard ==
    \A r \in RunIds :
        LET free == /\ r \in DOMAIN runs
                    /\ runs[r].cleanupCompletedAt = 0
                    /\ runs[r].cleanupHandled = FALSE
            after == beginSubagentCleanup(Cur, r)
        IN  /\ beginSubagentCleanupOk(runs, r) <=> free
            /\ free => /\ after.runs = [runs EXCEPT ![r].cleanupHandled = TRUE]
                       /\ ~saveFails => after.disk = after.runs
            /\ ~free => after = Cur

\* C31 witness: a call has returned true for r1, whose announce is in flight,
\* and a second call returns false
C31_Witness ==
    /\ "r1" \in DOMAIN runs /\ runs["r1"].cleanupHandled
    /\ runs["r1"].cleanupCompletedAt = 0
    /\ Len(announces["r1"]) = 1
    /\ ~beginSubagentCleanupOk(runs, "r1")

\* ------------------------------------------------------------------ C32
\* C32: when an announce invocation for run r completes and the record is
\* still in the registry, then with cleanup = delete the record is removed
\* whatever the announce reported, with cleanup = keep and a failed announce
\* cleanupHandled is false and cleanupCompletedAt is unset afterwards, and
\* with cleanup = keep and a successful announce cleanupCompletedAt is the
\* current time; when the record is gone the registry and the snapshot are
\* left as they are.
C32_AnnounceCompletion ==
    [][\A r \in RunIds : \A i \in 1..2 : \A did \in BOOLEAN :
          AnnounceDone(r, i, did) =>
              LET cleanup == announces[r][i].cleanup
              IN  IF r \notin DOMAIN runs
                  THEN runs' = runs /\ disk' = disk
                  ELSE IF cleanup = "delete"
                  THEN /\ r \notin DOMAIN runs'
                       /\ \A q \in DOMAIN runs \ {r} :
                              q \in DOMAIN runs' /\ runs'[q] = runs[q]
                  ELSE IF ~did
                  THEN /\ runs'[r].cleanupHandled = FALSE
                       /\ runs'[r].cleanupCompletedAt = 0
                  ELSE runs'[r].cleanupCompletedAt = now /\ now > 0]_vars


\* ------------------------------------------------------------------ C33
\* the record of r is as the reset of a retry leaves it
PostReset(e) ==
    /\ e.endedAt = 0
    /\ e.outcome = NoOutcome
    /\ e.cleanupHandled = FALSE
    /\ e.isRetry = TRUE
    /\ e.retryCount >= 1

\* the state s has a retry of r scheduled by the step that led to it
RetryScheduledIn(s, r, before) ==
    /\ r \in s.pendingRetries
    /\ s.retryTask[r].phase = "delay"
    /\ s.runs[r].retryCount = before.retryCount + 1

\* the agent.start call of a retry of r throws: nothing but the bookkeeping of
\* the retry changes, r leaves pendingRetries, and a record in its post-reset
\* state stays in it
FailedDispatchKeepsRecord(r) ==
    /\ runs' = runs /\ disk' = disk
    /\ probers' = probers /\ announces' = announces
    /\ starts' = starts
    /\ r \notin pendingRetries'
    /\ retryTask'[r] = IdleRetry
    /\ (r \in DOMAIN runs /\ PostReset(runs[r])) => PostReset(runs'[r])

\* after the failed agent.start, an error lifecycle event for a record that
\* may still be retried schedules the next retry, and for any other record
\* goes to cleanup
NextEventAppliesPolicy(r) ==
    (r \in DOMAIN runs /\ PostReset(runs[r]))
    => LET cfg == resolveOrchestrationConfig(userConfig, runs[r].orchestrationConfig)
           after == listener(Cur', r, "error", userConfig, verificationHooks)
       IN  IF cfg.retryOnFailure /\ runs[r].retryCount < cfg.maxRetries
           THEN RetryScheduledIn(after, r, runs[r])
           ELSE /\ after.retryTask[r] = IdleRetry
                /\ IF runs[r].cleanupCompletedAt = 0
                   THEN /\ after.runs[r].cleanupHandled
                        /\ Len(after.announces[r]) = Len(announces[r]) + 1
                   ELSE after.announces = announces

\* after the failed agent.start, an error reply of agent.wait for a record that
\* may still be retried schedules the next retry
NextReplyAppliesPolicy(r) ==
    (r \in DOMAIN runs /\ PostReset(runs[r]) /\ probers[r] > 0)
    => LET cfg == resolveOrchestrationConfig(userConfig, runs[r].orchestrationConfig)
           after == waitForSubagentCompletion(Cur', r, "error", FALSE, FALSE)
       IN  (cfg.retryOnFailure /\ runs[r].retryCount < cfg.maxRetries)
               => RetryScheduledIn(after, r, runs[r])

\* C33: when the agent.start call of a retry of r throws, the step changes no
\* record, starts no announce and no prober, r leaves pendingRetries and the
\* record stays in its post-reset state; the next terminal signal for r, a
\* lifecycle event or an agent.wait reply, is then handled by the
\* post-completion policy, which schedules the next retry while one is
\* permitted.
C33_FailedRetryDispatch ==
    [][\A r \in RunIds :
          RetryStartDone(r, FALSE) =>
              /\ FailedDispatchKeepsRecord(r)
              /\ NextEventAppliesPolicy(r)
              /\ NextReplyAppliesPolicy(r)]_vars


\* ------------------------------------------------------------------ C34
\* the policies with verification on, over every choice of hook and prompt
VerdictConfigs ==
    {resolveOrchestrationConfig(userConfig, o) :
        o \in [verifyCompletion : {TRUE},
               verificationHook : {""} \cup HookNames,
               verificationPrompt : {"", "done?"}]}

\* the order in which verifyTaskCompletion chooses who gives the verdict for
\* the entry e under the policy c
VerdictOrder(e, c) ==
    LET v == verifyTaskCompletionStart(e, c, verificationHooks)
    IN  /\ (c.verificationHook # "" /\ c.verificationHook \in verificationHooks)
               => v = "hook"
        /\ (c.verificationHook # "" /\ c.verificationHook \notin verificationHooks)
               => v = "pass"
        /\ (c.verificationHook = "" /\ e.outcome.status = "error")
               => v = "fail"
        /\ (c.verificationHook = "" /\ e.outcome.status # "error"
                /\ c.verificationPrompt # "")
               => v = "query"
        /\ (c.verificationHook = "" /\ e.outcome.status # "error"
                /\ c.verificationPrompt = "")
               => v = "pass"

\* the verification of r comes back with a passing verdict
VerdictPasses(r) ==
    \E reply \in VerificationReplies :
        /\ verifTask[r].phase # "idle"
        /\ verificationPassed(verifTask[r].phase, reply)
        /\ VerificationReturns(r, reply)

\* an end event for r whose verification passes without a call: the hook is
\* not registered, or neither hook nor prompt is configured
PassesAtOnce(r) ==
    /\ r \in DOMAIN runs /\ r \notin pendingVerifications
    /\ LET c == resolveOrchestrationConfig(userConfig, runs[r].orchestrationConfig)
       IN  /\ c.verifyCompletion
           /\ verifyTaskCompletionStart([runs[r] EXCEPT !.outcome = OkOutcome],
                                        c, verificationHooks) = "pass"
    /\ ListenerEvent(r, "end")

\* C34: the verdict is chosen in a fixed order (a configured hook alone
\* decides and a hook that is not registered passes; else an error outcome
\* fails; else a configured prompt is put to the agent; else the verdict is
\* pass), and on a passing verdict verificationResult is set to passed and
\* cleanup of the record begins, unless it has begun or is completed.
C34_VerdictOrder ==
    /\ [](\A r \in DOMAIN runs : \A c \in VerdictConfigs : VerdictOrder(runs[r], c))
    /\ [][\A r \in RunIds :
             (r \in DOMAIN runs /\ (VerdictPasses(r) \/ PassesAtOnce(r)))
                 => /\ runs'[r].verificationResult = "passed"
                    /\ r \notin pendingVerifications'
                    /\ IF beginSubagentCleanupOk(runs, r)
                       THEN /\ runs'[r].cleanupHandled
                            /\ Len(announces'[r]) = Len(announces[r]) + 1
                       ELSE announces' = announces]_vars

\* ------------------------------------------------------------------ C35
\* the fields of a record that are fixed at registration
Registered(e) ==
    <<e.orchestrationConfig, e.maxRetries, e.runId, e.task, e.cleanup,
      e.requesterSessionKey, e.childSessionKey>>

\* the policy the listener resolves for the record e under the process
\* configuration c
PolicyUsed(c, e) == resolveOrchestrationConfig(c, e.orchestrationConfig)

\* C35: no step changes the orchestrationConfig, maxRetries, runId, task,
\* cleanup or session keys of a record that stays in the registry, and the
\* policy resolved for a record at a post-completion decision is the one
\* stored at registration whatever the process configuration has become: it
\* is the same under every process configuration.
C35_PolicySnapshotFixed ==
    /\ [][\A r \in DOMAIN runs \cap DOMAIN runs' :
             Registered(runs'[r]) = Registered(runs[r])]_vars
    /\ [](\A r \in DOMAIN runs : \A c \in scn.userConfigs :
             PolicyUsed(c, runs[r]) = PolicyUsed(userConfig, runs[r]))

\* ------------------------------------------------------------------ C36
\* C36: the retryCount of a record never decreases; it grows by exactly one,
\* in the step that schedules a retry and in no other; the retry numbers n of
\* the run IDs "<runId>-retry-<n>" passed to agent.start for one run are
\* strictly increasing, hence pairwise distinct.
C36_RetryNumbersIncrease ==
    /\ [][\A r \in DOMAIN runs \cap DOMAIN runs' :
             LET k == runs[r].retryCount
                 scheduled == /\ retryTask'[r].phase = "delay"
                              /\ retryTask[r].phase = "idle"
             IN  /\ runs'[r].retryCount \in {k, k + 1}
                 /\ runs'[r].retryCount = k + 1 <=> scheduled
                 /\ scheduled => retryTask'[r].n = k + 1]_vars
    /\ [](\A r \in RunIds : \A i, j \in 1..Len(starts[r]) :
             i < j => starts[r][i] < starts[r][j])

\* C36 witness: two retries of r1 were dispatched, as r1-retry-1 and
\* r1-retry-2
C36_Witness ==
    /\ "r1" \in DOMAIN runs
    /\ runs["r1"].retryCount = 2
    /\ starts["r1"] = <<1, 2>>

\* ------------------------------------------------------------------ C37
\* the record of r was registered and is no longer in the registry
Removed(r) == r \in known /\ r \notin DOMAIN runs

\* C37: once the record of r has been removed from the registry, no step puts
\* it back, starts an announce for r or calls agent.start for r, whatever was
\* in flight for r at the removal.
C37_RemovedStaysRemoved ==
    [][\A r \in RunIds :
          Removed(r) => /\ r \notin DOMAIN runs'
                        /\ Len(announces'[r]) <= Len(announces[r])
                        /\ starts'[r] = starts[r]]_vars

\* C37 witness: r1 was removed while its retry waited for the back-off timer,
\* its verification for the agent's answer and an agent.wait call for its
\* reply
C37_Witness ==
    /\ Removed("r1")
    /\ retryTask["r1"].phase = "delay"
    /\ verifTask["r1"].phase = "query" /\ verifTask["r1"].detached
    /\ probers["r1"] > 0

\* ------------------------------------------------------------------ C38
\* C38: in every reachable state in which the registry holds a record with
\* archiveAtMs set, the sweeper's timer is armed.
C38_SweeperActiveWhileArchivable ==
    (\E r \in DOMAIN runs : runs[r].archiveAtMs # 0) => sweeper

\* C38 witness: a sweep that removed r1 is suspended in its sessions.delete
\* call while r2, registered meanwhile, waits for its archival
C38_Witness ==
    /\ sweepTask.phase = "rpc"
    /\ DOMAIN runs = {"r2"}
    /\ runs["r2"].archiveAtMs > sweepTask.at
    /\ sweeper

\* ------------------------------------------------------------------ C39
\* the record of r is in the snapshot and the process has not restored it yet
NotYetRestored(r) ==
    /\ ~restoreAttempted
    /\ r \in DOMAIN disk
    /\ r \notin DOMAIN runs

\* C39: a step of a process that has not run its restore yet leaves every
\* not-yet-restored record in the snapshot (or is the restore, which brings
\* it into the registry), so that every run of the snapshot the process
\* started with is in the registry once initRegistry has run.
C39_SnapshotSurvivesUntilRestore ==
    [][\A r \in RunIds :
          NotYetRestored(r)
              => \/ r \in DOMAIN runs'
                 \/ r \in DOMAIN disk' /\ ~restoreAttempted']_vars

\* ------------------------------------------------------------------ C40
\* the run r has reached a final state: cleanup completed, or record removed
Final(r) == r \notin DOMAIN runs \/ runs[r].cleanupCompletedAt # 0

\* C40: when every attempt in progress ends with a terminal lifecycle event,
\* every timer and gateway call of the engine returns and every announce
\* returns success, every registered run eventually reaches a final state:
\* its cleanupCompletedAt is set or its record has been removed.
C40_EveryRunFinishes ==
    \A r \in RunIds : [](r \in DOMAIN runs => <>Final(r))
====
